---- MODULE Spec2Model ----
(***************************************************************************)
(* Persistence and recovery subsystem of BLACKMD.                          *)
(*                                                                         *)
(*   Part A  credential backups: createBackup, cleanupOldBackups,          *)
(*           restoreBackup             (src/unnamed/part_004)              *)
(*   Part B  user database: saveAllUserData, loadAllUserData and the       *)
(*           profile accessors         (src/src/utils/permissions.js)      *)
(***************************************************************************)
EXTENDS Integers, Sequences, FiniteSets, TLC

VARIABLES
    disk,        \* the backup directories: per directory, whether it exists, latest_creds.json, creds_backup_<ts>.json
    now,         \* Date.now()
    nOps,        \* createBackup calls and interferences of the environment so far
    nFaults,     \* createBackup calls with an injected fault so far
    lastBackup,  \* history: the arguments, timestamp and return value of the last createBackup call
    written,     \* history: per directory, the timestamps whose snapshot write succeeded
    faulted,     \* history: the directories where a mkdir, a write or an unlink has failed
    restored,    \* what the last restoreBackup returned and the file it came from
    phase,       \* history: what happened last to the backup files
    userProfiles, \* the Map userProfiles: its entries <<key, object>> in insertion order
    heap,        \* the profile objects the entries of userProfiles refer to
    aux,         \* the nine other collections: userGames ... checkinData, lotteryParticipants
    dataDir,     \* the directory data/: user_data.json, its .bak, .temp.<ts> and .corrupted.<ts> siblings
    nStoreOps,   \* operations on the user database so far
    lastSave,    \* history: the last saveAllUserData call
    lastLoad,    \* history: the last loadAllUserData call
    storePhase,  \* history: what happened last to the user database
    savers,      \* the saveAllUserData invocations in flight: one per trigger
    lastGet,     \* the latest call of getUserProfile: its argument and the step that answered
    calls,       \* the createBackup calls in flight: one per caller
    shutdownPc,  \* where the shutdown handler of index.js stands
    loader,      \* the loadAllUserData invocation of module initialisation
    blob,        \* the value of CREDS_DATA handed to decompressCredsData
    decoded,     \* what decompressCredsData returned for it, and the methods it tried
    credsFile,   \* the file creds.json of the auth directory
    packed,      \* the latest call of compressCredsData: the file it found and what it returned
    jid,         \* the identifier handed to _normalizeJid
    normalized,  \* the results of applying _normalizeJid to it again and again
    autoSaveInterval, \* the timer startAutoSave registered last, 0 for null
    timers,      \* the interval timers registered and not cleared
    nTimers,     \* how many timers setInterval has handed out
    cycles,      \* per timer, its callbacks whose saveAllUserData has not returned
    cronTasks,   \* how many tasks setupScheduledBackups has scheduled
    backupCycles, \* per task, its callbacks whose createBackup has not returned
    lastSched,   \* the latest step of the schedulers and the state it started from
    nSchedOps    \* steps of the schedulers so far

backupVars == <<disk, nOps, nFaults, lastBackup, written, faulted, restored, phase, calls>>

storeVars == <<userProfiles, heap, aux, dataDir, nStoreOps, lastSave, lastLoad, storePhase, savers,
               lastGet, shutdownPc, loader>>

codecVars == <<blob, decoded, credsFile, packed>>

normVars == <<jid, normalized>>

timerVars == <<autoSaveInterval, timers, nTimers, cycles, cronTasks, backupCycles, lastSched,
               nSchedOps>>

vars == <<disk, now, nOps, nFaults, lastBackup, written, faulted, restored, phase, calls,
          userProfiles, heap, aux, dataDir, nStoreOps, lastSave, lastLoad, storePhase, savers,
          lastGet, shutdownPc, loader, blob, decoded, credsFile, packed, jid, normalized,
          autoSaveInterval, timers, nTimers, cycles, cronTasks, backupCycles, lastSched, nSchedOps>>

(***************************************************************************)
(* Bounds of the model and constants of the program.                       *)
(***************************************************************************)
NumDirs == 3                 \* BACKUP_DIRS has three entries
MAX_BACKUPS_PER_DIR == 10
Epoch == 10                  \* first clock value; every clock value has the same number of digits
MaxOps == 2                  \* createBackup calls and interferences in Spec
MaxCallsR == 11              \* createBackup calls in SpecRetention
MaxFaultsR == 1              \* faulty createBackup calls in SpecRetention
MaxTicks == 1                \* milliseconds that pass while calls are in flight

BACKUP_DIRS == 1..NumDirs

Creds == {"c1", "c2"}        \* credential objects, as their JSON.stringify text
Null == "null"               \* a missing credentials argument / the not-found result
Undefined == "undefined"     \* parsed.creds of a file that has no creds member

(***************************************************************************)
(* File contents.                                                          *)
(***************************************************************************)
NoSum == <<>>

NoFile == [kind |-> "none", creds |-> Null, sum |-> NoSum, ts |-> 0]

\* a file JSON.parse rejects: torn by a failed write, or damaged
Garbage == [kind |-> "garbage", creds |-> Null, sum |-> NoSum, ts |-> 0]

\* the old format: the file is the credentials object itself
Legacy(c) == [kind |-> "legacy", creds |-> c, sum |-> NoSum, ts |-> 0]

calculateChecksum(data) == <<"sha256", data>>

\* { creds, meta: { timestamp, checksum, session, version } }
BackupFile(c, meta) == [kind |-> "json", creds |-> c, sum |-> meta.checksum, ts |-> meta.timestamp]

Parses(f) == f.kind \in {"json", "legacy"}

NoSnaps == [t \in {} |-> NoFile]

NoDir == [exists |-> FALSE, latest |-> NoFile, snaps |-> NoSnaps]

(***************************************************************************)
(* File names creds_backup_<ts>.json and Array.prototype.sort, which       *)
(* compares the names as strings of UTF-16 code units.                     *)
(***************************************************************************)
RECURSIVE Digits(_)
Digits(n) == IF n < 10 THEN <<48 + n>> ELSE Append(Digits(n \div 10), 48 + (n % 10))

\* the part of the name after the common prefix: the digits, then ".json"
NameKey(ts) == Append(Digits(ts), 46)

RECURSIVE SeqLess(_, _)
SeqLess(a, b) ==
    IF a = <<>> THEN b # <<>>
    ELSE IF b = <<>> THEN FALSE
    ELSE IF Head(a) # Head(b) THEN Head(a) < Head(b)
    ELSE SeqLess(Tail(a), Tail(b))

NameLess(t, u) == SeqLess(NameKey(t), NameKey(u))

RECURSIVE SortNames(_)
SortNames(S) ==
    IF S = {} THEN <<>>
    ELSE LET m == CHOOSE t \in S : \A u \in S \ {t} : NameLess(t, u)
         IN  <<m>> \o SortNames(S \ {m})

\* the first k names of SortNames(S)
RECURSIVE FirstSorted(_, _)
FirstSorted(S, k) ==
    IF k = 0 \/ S = {} THEN <<>>
    ELSE LET m == CHOOSE t \in S : \A u \in S \ {t} : NameLess(t, u)
         IN  <<m>> \o FirstSorted(S \ {m}, k - 1)

Reverse(s) == [i \in 1..Len(s) |-> s[Len(s) + 1 - i]]

Range(s) == {s[i] : i \in 1..Len(s)}

Min(a, b) == IF a < b THEN a ELSE b

(***************************************************************************)
(* createBackup                                                            *)
(***************************************************************************)
\* What can go wrong at one directory during one call.
\*   mkdir       fs.mkdir rejects
\*   snapFail    the first fs.writeFile rejects and leaves no file
\*   snapTorn    the first fs.writeFile rejects and leaves a torn file
\*   latestFail  the second fs.writeFile rejects and leaves latest as it was
\*   latestTorn  the second fs.writeFile rejects and leaves latest torn
WriteFaults == {"snapFail", "snapTorn", "latestFail", "latestTorn"}
Faults == {"ok", "mkdir"} \cup WriteFaults

\* the loop of lines 35-37: directories are created in order until one rejects
MkdirFailsAt(faults) ==
    IF \E l \in BACKUP_DIRS : faults[l] = "mkdir"
    THEN CHOOSE l \in BACKUP_DIRS : faults[l] = "mkdir" /\ \A k \in 1..(l - 1) : faults[k] # "mkdir"
    ELSE NumDirs + 1

mkdirAll(d, faults) ==
    [l \in BACKUP_DIRS |->
        IF l < MkdirFailsAt(faults) THEN [d[l] EXCEPT !.exists = TRUE] ELSE d[l]]

PutSnap(dir, ts, f) ==
    [dir EXCEPT !.snaps = [t \in (DOMAIN dir.snaps) \cup {ts} |-> IF t = ts THEN f ELSE dir.snaps[t]]]

\* writeDir giving the latest-pointer a digest of the indented text of the file
writeDirTextDigest(dir, c, meta, fault) ==
    LET file == BackupFile(c, meta)
        pointer == BackupFile(c, [meta EXCEPT !.checksum = calculateChecksum("indented")])
        ts == meta.timestamp
    IN  CASE fault = "snapFail"   -> dir
          [] fault = "snapTorn"   -> PutSnap(dir, ts, Garbage)
          [] fault = "latestFail" -> PutSnap(dir, ts, file)
          [] fault = "latestTorn" -> [PutSnap(dir, ts, file) EXCEPT !.latest = Garbage]
          [] OTHER                -> [PutSnap(dir, ts, file) EXCEPT !.latest = pointer]

\* the body of the loop of lines 51-71 for one directory
writeDir(dir, c, meta, fault) ==
    LET file == BackupFile(c, meta)
        ts == meta.timestamp
    IN  CASE fault = "snapFail"   -> dir
          [] fault = "snapTorn"   -> PutSnap(dir, ts, Garbage)
          [] fault = "latestFail" -> PutSnap(dir, ts, file)
          [] fault = "latestTorn" -> [PutSnap(dir, ts, file) EXCEPT !.latest = Garbage]
          [] OTHER                -> [PutSnap(dir, ts, file) EXCEPT !.latest = file]

\* how many of the n fs.unlink calls of one directory succeed before one rejects
Unlinks == {"all", "one", "none"}

OkUnlinks(u, n) == CASE u = "none" -> 0 [] u = "one" -> Min(n, 1) [] OTHER -> n

\* cleanupDir removing from the wrong end of the sorted names
cleanupDirNewestFirst(dir, u) ==
    IF ~dir.exists THEN dir
    ELSE LET backupFiles == DOMAIN dir.snaps
             n == Cardinality(backupFiles)
         IN  IF n > MAX_BACKUPS_PER_DIR
             THEN LET sorted == Reverse(SortNames(backupFiles))
                      removed == Range(SubSeq(sorted, 1, n - MAX_BACKUPS_PER_DIR))
                  IN  [dir EXCEPT !.snaps = [t \in backupFiles \ removed |-> dir.snaps[t]]]
             ELSE dir

cleanupDir(dir, u) ==
    IF ~dir.exists THEN dir
    ELSE LET backupFiles == DOMAIN dir.snaps
             n == Cardinality(backupFiles)
         IN  IF n > MAX_BACKUPS_PER_DIR
             THEN LET filesToRemove == FirstSorted(backupFiles, n - MAX_BACKUPS_PER_DIR)
                      removed == Range(SubSeq(filesToRemove, 1, OkUnlinks(u, Len(filesToRemove))))
                  IN  [dir EXCEPT !.snaps = [t \in backupFiles \ removed |-> dir.snaps[t]]]
             ELSE dir

cleanupOldBackups(d, unl) == [l \in BACKUP_DIRS |-> cleanupDir(d[l], unl[l])]

\* the return value and the directories after createBackup(c) at clock value ts
\* createBackup without the check of lines 29-32
createBackupUnchecked(d, c, ts, faults, unl) ==
    LET made == mkdirAll(d, faults)
        backupMeta == [timestamp |-> ts, checksum |-> calculateChecksum(c)]
        saved == [l \in BACKUP_DIRS |-> writeDir(made[l], c, backupMeta, faults[l])]
    IN  IF MkdirFailsAt(faults) <= NumDirs THEN [ret |-> FALSE, disk |-> made]
        ELSE [ret |-> TRUE, disk |-> cleanupOldBackups(saved, unl)]

\* createBackup that reports whether a directory took the snapshot
createBackupVerified(d, c, ts, faults, unl) ==
    LET made == mkdirAll(d, faults)
        backupMeta == [timestamp |-> ts, checksum |-> calculateChecksum(c)]
        saved == [l \in BACKUP_DIRS |-> writeDir(made[l], c, backupMeta, faults[l])]
    IN  IF c = Null THEN [ret |-> FALSE, disk |-> d]
        ELSE IF MkdirFailsAt(faults) <= NumDirs THEN [ret |-> FALSE, disk |-> made]
        ELSE [ret |-> \E l \in BACKUP_DIRS : faults[l] \in {"ok", "latestFail", "latestTorn"},
              disk |-> cleanupOldBackups(saved, unl)]

createBackup(d, c, ts, faults, unl) ==
    IF c = Null THEN [ret |-> FALSE, disk |-> d]
    ELSE IF MkdirFailsAt(faults) <= NumDirs THEN [ret |-> FALSE, disk |-> mkdirAll(d, faults)]
    ELSE LET made == mkdirAll(d, faults)
             backupMeta == [timestamp |-> ts, checksum |-> calculateChecksum(c)]
             saved == [l \in BACKUP_DIRS |-> writeDir(made[l], c, backupMeta, faults[l])]
         IN  [ret |-> TRUE, disk |-> cleanupOldBackups(saved, unl)]

(***************************************************************************)
(* restoreBackup                                                           *)
(***************************************************************************)
NotRun == [creds |-> Null, loc |-> 0, file |-> "notrun", ts |-> 0]
NotFound == [creds |-> Null, loc |-> 0, file |-> "none", ts |-> 0]

\* the checksum test of lines 150-156
ChecksumMismatch(f) ==
    /\ f.kind = "json"
    /\ f.sum # NoSum
    /\ calculateChecksum(f.creds) # f.sum

\* the snapshots newest first, the first that parses and whose digest matches
RECURSIVE firstVerified(_, _)
firstVerified(dir, names) ==
    IF names = <<>> THEN 0
    ELSE IF Parses(dir.snaps[Head(names)]) /\ ~ChecksumMismatch(dir.snaps[Head(names)])
         THEN Head(names)
    ELSE firstVerified(dir, Tail(names))

restoreFromSnapsVerified(dir) == firstVerified(dir, Reverse(SortNames(DOMAIN dir.snaps)))

\* lines 164-186: the snapshots newest first, the first that parses
RECURSIVE firstParsable(_, _)
firstParsable(dir, names) ==
    IF names = <<>> THEN 0
    ELSE IF Parses(dir.snaps[Head(names)]) THEN Head(names)
    ELSE firstParsable(dir, Tail(names))

restoreFromSnaps(dir) == firstParsable(dir, Reverse(SortNames(DOMAIN dir.snaps)))

\* restoreFrom without the checksum test
RECURSIVE restoreFromUnverified(_, _)
restoreFromUnverified(d, l) ==
    IF l > NumDirs THEN NotFound
    ELSE IF ~d[l].exists THEN restoreFromUnverified(d, l + 1)
    ELSE LET latest == d[l].latest
         IN  IF Parses(latest)
             THEN [creds |-> IF latest.kind = "json" THEN latest.creds ELSE Undefined,
                   loc |-> l, file |-> "latest", ts |-> latest.ts]
             ELSE LET t == restoreFromSnaps(d[l])
                  IN  IF t = 0 THEN restoreFromUnverified(d, l + 1)
                      ELSE [creds |-> d[l].snaps[t].creds, loc |-> l, file |-> "snap", ts |-> t]

RECURSIVE restoreFrom(_, _)
restoreFrom(d, l) ==
    IF l > NumDirs THEN NotFound
    ELSE IF ~d[l].exists THEN restoreFrom(d, l + 1)
    ELSE LET latest == d[l].latest
         IN  IF Parses(latest)
             THEN IF ChecksumMismatch(latest)
                  THEN restoreFrom(d, l + 1)      \* `continue` of line 154 leaves this directory
                  ELSE [creds |-> IF latest.kind = "json" THEN latest.creds ELSE Undefined,
                        loc |-> l, file |-> "latest", ts |-> latest.ts]
             ELSE LET t == restoreFromSnaps(d[l])
                  IN  IF t = 0 THEN restoreFrom(d, l + 1)
                      ELSE [creds |-> d[l].snaps[t].creds, loc |-> l, file |-> "snap", ts |-> t]

\* a restore that looks into no directory
restoreBackupNowhere(d) == NotFound

restoreBackup(d) == restoreFrom(d, 1)

(***************************************************************************)
(* The user database of src/utils/permissions.js: values and identifiers.  *)
(***************************************************************************)
\* JavaScript values are written as their source text
Numbers == {"0", "1", "5", "NaN"}

Arrays == {"[]"}

Falsy == {"undefined", "null", "0", "''", "NaN"}

\* v || dflt
Or(v, dflt) == IF v \in Falsy THEN dflt ELSE v

\* typeof v === 'number'
IsNumber(v) == v \in Numbers

\* Array.isArray(v)
IsArray(v) == v \in Arrays

\* value && typeof value === 'object'
IsObject(v) == v = "{}"

\* new Date().toISOString(): the text of an instant (instants are not told apart)
IsoNow == "'date'"

\* what JSON.parse(JSON.stringify(v)) gives for a leaf value
jsonValue(v) == IF v = "NaN" THEN "null" ELSE v

\* identifiers <<local part, domain>>; the domain "" is a bare number
JidA == <<"15", "s.whatsapp.net">>

JidAlias == <<"15", "c.us">>

JidBare == <<"15", "">>

JidGroup == <<"1203", "g.us">>

UserIds == {JidA, JidAlias, JidBare, JidGroup}

\* the empty string: no identifier
JidEmpty == <<"", "">>

normalizeJidAsIs(id) == id

normalizeJid(id) ==
    IF id = JidEmpty THEN JidEmpty
    ELSE IF id[2] = "g.us" THEN id
    ELSE IF id[2] = "s.whatsapp.net" THEN id
    ELSE <<id[1], "s.whatsapp.net">>

Locals == {"15", "15:3", "1203", "447", "status", "0"}

Domains == {"", "c.us", "s.whatsapp.net", "g.us", "lid", "broadcast"}

Jids == {<<l, d>> : l \in Locals, d \in Domains} \cup {JidEmpty}

\* property names that are array indices come first in an object's key order
IsArrayIndex(key) == key[2] = "" /\ key[1] \in {"15"}

Fields == {"name", "age", "xp", "level", "coins", "bio", "language", "registeredAt",
           "lastDaily", "inventory", "achievements", "customTitle", "warnings"}

\* a field that callers pass in and that the thirteen do not cover
OtherFields == {"rank"}

AllFields == Fields \cup OtherFields

NoData == [f \in {} |-> "undefined"]

DataInputs == {NoData,
               [f \in {"name"} |-> "'Al'"],
               [f \in {"xp"} |-> "5"],
               [f \in {"xp"} |-> "'7'"],
               [f \in {"xp"} |-> "NaN"],
               [f \in {"rank"} |-> "'vip'"]}

\* obj.f, undefined when the property is missing
Field(obj, f) == IF f \in DOMAIN obj THEN obj[f] ELSE "undefined"

\* {...base, ...data} and Object.assign(base, data)
Assign(base, data) == [f \in AllFields |-> IF f \in DOMAIN data THEN data[f] ELSE Field(base, f)]

defaultProfile(initialData) ==
    [f \in Fields |->
        CASE f = "name" -> Or(Field(initialData, "name"), "'User'")
          [] f = "age" -> Or(Field(initialData, "age"), "0")
          [] f = "xp" -> "0"
          [] f = "level" -> "1"
          [] f = "coins" -> "0"
          [] f = "bio" -> "''"
          [] f = "language" -> Or(Field(initialData, "language"), "'en'")
          [] f = "registeredAt" -> IsoNow
          [] f = "lastDaily" -> "null"
          [] f = "inventory" -> "[]"
          [] f = "achievements" -> "[]"
          [] f = "customTitle" -> "''"
          [] OTHER -> "0"]

validatedProfile(profile) ==
    [f \in AllFields |->
        CASE f = "name" -> Or(profile[f], "'User'")
          [] f = "age" -> Or(profile[f], "0")
          [] f = "xp" -> IF IsNumber(profile[f]) THEN profile[f] ELSE "0"
          [] f = "level" -> IF IsNumber(profile[f]) THEN profile[f] ELSE "1"
          [] f = "coins" -> IF IsNumber(profile[f]) THEN profile[f] ELSE "0"
          [] f = "bio" -> Or(profile[f], "''")
          [] f = "language" -> Or(profile[f], "'en'")
          [] f = "registeredAt" -> Or(profile[f], IsoNow)
          [] f = "lastDaily" -> Or(profile[f], "null")
          [] f = "inventory" -> IF IsArray(profile[f]) THEN profile[f] ELSE "[]"
          [] f = "achievements" -> IF IsArray(profile[f]) THEN profile[f] ELSE "[]"
          [] f = "customTitle" -> Or(profile[f], "''")
          [] f = "warnings" -> IF IsNumber(profile[f]) THEN profile[f] ELSE "0"
          [] OTHER -> "undefined"]

(***************************************************************************)
(* The Map userProfiles: entries [key, ref] in insertion order; ref is the *)
(* index in heap of the profile object the entry refers to.                *)
(***************************************************************************)
MapKeys(m) == {m[i].key : i \in 1..Len(m)}

MapIndex(m, key) == CHOOSE i \in 1..Len(m) : m[i].key = key

\* Map.get: 0 stands for undefined
MapGet(m, key) == IF key \in MapKeys(m) THEN m[MapIndex(m, key)].ref ELSE 0

\* Map.set: an existing key keeps its place
MapSet(m, key, ref) ==
    IF key \in MapKeys(m)
    THEN [m EXCEPT ![MapIndex(m, key)].ref = ref]
    ELSE Append(m, [key |-> key, ref |-> ref])

\* objects no entry refers to are dropped and the others numbered in the
\* order of their first entry
\* the least element of a set of numbers
Least(S) == CHOOSE x \in S : \A y \in S : x <= y

FirstAt(m, ref) == Least({i \in 1..Len(m) : m[i].ref = ref})

Live(m) == {m[i].ref : i \in 1..Len(m)}

RankOf(m, ref) == Cardinality({s \in Live(m) : FirstAt(m, s) < FirstAt(m, ref)}) + 1

Collect(st) ==
    [m |-> [i \in 1..Len(st.m) |-> [key |-> st.m[i].key, ref |-> RankOf(st.m, st.m[i].ref)]],
     h |-> [j \in 1..Cardinality(Live(st.m)) |->
              st.h[CHOOSE r \in Live(st.m) : RankOf(st.m, r) = j]]]

(***************************************************************************)
(* initializeUserProfile, getUserProfile, updateUserProfile: each gives    *)
(* the profiles afterwards (st) and the object returned (ref, 0 for null). *)
(***************************************************************************)
NoProfiles == [m |-> <<>>, h |-> <<>>]

SetKey(st, key, ref) == [st EXCEPT !.m = MapSet(st.m, key, ref)]

initializeUserProfile(st, userId, initialData) ==
    LET normalizedId == normalizeJid(userId)
        existingProfile == IF MapGet(st.m, userId) # 0 THEN MapGet(st.m, userId)
                           ELSE MapGet(st.m, normalizedId)
        profileData == Assign(defaultProfile(initialData), initialData)
        ref == Len(st.h) + 1
        stored == SetKey([st EXCEPT !.h = Append(st.h, profileData)], normalizedId, ref)
    IN  IF existingProfile # 0 THEN [st |-> st, ref |-> existingProfile]
        ELSE [st |-> IF normalizedId # userId THEN SetKey(stored, userId, ref) ELSE stored,
              ref |-> ref]

\* the first entry whose key normalizes to normalizedId, 0 when there is none
FirstMatching(m, normalizedId) ==
    LET hits == {i \in 1..Len(m) : normalizeJid(m[i].key) = normalizedId}
    IN  IF hits = {} THEN 0 ELSE Least(hits)

\* a lookup that answers from the fallback steps without storing the keys it found
getUserProfileNoStore(st, userId) ==
    LET directResult == MapGet(st.m, userId)
        normalizedId == normalizeJid(userId)
        normalizedResult == MapGet(st.m, normalizedId)
        hit == FirstMatching(st.m, normalizedId)
    IN  IF directResult # 0 THEN [st |-> st, ref |-> directResult, by |-> "exact"]
        ELSE IF normalizedResult # 0
        THEN [st |-> st, ref |-> normalizedResult, by |-> "normalized"]
        ELSE IF hit # 0 THEN [st |-> st, ref |-> st.m[hit].ref, by |-> "scan"]
        ELSE [st |-> st, ref |-> 0, by |-> "miss"]

\* a lookup that makes a record when it finds none
getUserProfileCreating(st, userId) ==
    LET directResult == MapGet(st.m, userId)
        normalizedId == normalizeJid(userId)
        normalizedResult == MapGet(st.m, normalizedId)
        hit == FirstMatching(st.m, normalizedId)
        made == initializeUserProfile(st, userId, NoData)
    IN  IF userId = JidEmpty THEN [st |-> st, ref |-> 0, by |-> "miss"]
        ELSE IF directResult # 0 THEN [st |-> st, ref |-> directResult, by |-> "exact"]
        ELSE IF normalizedResult # 0
        THEN [st |-> SetKey(st, userId, normalizedResult), ref |-> normalizedResult,
              by |-> "normalized"]
        ELSE IF hit # 0
        THEN [st |-> SetKey(SetKey(st, userId, st.m[hit].ref), normalizedId, st.m[hit].ref),
              ref |-> st.m[hit].ref, by |-> "scan"]
        ELSE [st |-> made.st, ref |-> 0, by |-> "miss"]

getUserProfile(st, userId) ==
    LET directResult == MapGet(st.m, userId)
        normalizedId == normalizeJid(userId)
        normalizedResult == MapGet(st.m, normalizedId)
        hit == FirstMatching(st.m, normalizedId)
    IN  IF userId = JidEmpty THEN [st |-> st, ref |-> 0, by |-> "miss"]  \* line 328
        ELSE IF directResult # 0 THEN [st |-> st, ref |-> directResult, by |-> "exact"]
        ELSE IF normalizedResult # 0
        THEN [st |-> SetKey(st, userId, normalizedResult), ref |-> normalizedResult,
              by |-> "normalized"]
        ELSE IF hit # 0
        THEN [st |-> SetKey(SetKey(st, userId, st.m[hit].ref), normalizedId, st.m[hit].ref),
              ref |-> st.m[hit].ref, by |-> "scan"]
        ELSE [st |-> st, ref |-> 0, by |-> "miss"]

updateUserProfile(st, userId, data) ==
    LET got == getUserProfile(st, userId)
        normalizedId == normalizeJid(userId)
        made == initializeUserProfile(got.st, normalizedId, data)
        assigned == Assign(got.st.h[got.ref], data)
        profile == IF assigned["language"] \in Falsy
                   THEN [assigned EXCEPT !["language"] = "'en'"] ELSE assigned
        updated == [got.st EXCEPT !.h[got.ref] = profile]
    IN  IF got.ref = 0
        THEN [st |-> IF normalizedId # userId THEN SetKey(made.st, userId, made.ref) ELSE made.st,
              ref |-> made.ref]
        ELSE [st |-> IF normalizedId # userId THEN SetKey(updated, normalizedId, got.ref) ELSE updated,
              ref |-> got.ref]

(***************************************************************************)
(* The nine other collections.                                             *)
(***************************************************************************)
\* userGames, marriageData, bankAccounts, userJobs, petData, userAfk, streakData, checkinData
AuxMaps == {"games", "marriages", "bank", "jobs", "pets", "afk", "streaks", "checkins"}

AuxKeys == {JidA}

AuxValues == {"{}", "5"}

Absent == "absent"

NoAux == [maps |-> [c \in AuxMaps |-> [k \in AuxKeys |-> Absent]], lottery |-> {}]

(***************************************************************************)
(* The data file: what saveAllUserData serializes and what JSON.parse     *)
(* gives back.                                                             *)
(***************************************************************************)
NoMeta == [version |-> 0, savedAt |-> 0, profileCount |-> 0, invalidProfileCount |-> 0]

EmptyData == [profiles |-> <<>>, aux |-> NoAux, meta |-> NoMeta]

\* the entries of Object.fromEntries(map) in property order
FromEntries(entries) ==
    SelectSeq(entries, LAMBDA e : IsArrayIndex(e.key))
        \o SelectSeq(entries, LAMBDA e : ~IsArrayIndex(e.key))

\* JSON.stringify and JSON.parse of one object: undefined properties are left out
jsonObject(obj) == [f \in DOMAIN obj |-> jsonValue(obj[f])]

jsonAux(a) ==
    [maps |-> [c \in AuxMaps |-> [k \in AuxKeys |-> jsonValue(a.maps[c][k])]],
     lottery |-> a.lottery]

\* lines 451-506: validatedUserProfiles and userData
userData(st, a, t) ==
    [profiles |-> FromEntries([i \in 1..Len(st.m) |->
                      [key |-> st.m[i].key, value |-> jsonObject(validatedProfile(st.h[st.m[i].ref]))]]),
     aux |-> jsonAux(a),
     meta |-> [version |-> 1, savedAt |-> t, profileCount |-> Len(st.m), invalidProfileCount |-> 0]]

\* lines 674-685: the in-memory state as loadAllUserData writes it to .bak
rawData(st, a) ==
    [profiles |-> FromEntries([i \in 1..Len(st.m) |->
                      [key |-> st.m[i].key, value |-> jsonObject(st.h[st.m[i].ref])]]),
     aux |-> jsonAux(a),
     meta |-> NoMeta]

\* file contents
Missing == [kind |-> "none", data |-> EmptyData]

Json(data) == [kind |-> "json", data |-> data]

\* a prefix of the text of data: "blank" is the empty prefix
Blank == [kind |-> "blank", data |-> EmptyData]

Partial(data) == [kind |-> "partial", data |-> data]

\* text that is not JSON
Invalid == [kind |-> "invalid", data |-> EmptyData]

\* JSON of a value that is not an object, such as 5
Scalar == [kind |-> "scalar", data |-> EmptyData]

NoFiles == [t \in {} |-> Missing]

InitDataDir == [exists |-> FALSE, file |-> Missing, bak |-> Missing, temps |-> NoFiles, corrupted |-> NoFiles]

Without(files, t) == [u \in (DOMAIN files) \ {t} |-> files[u]]

With(files, t, content) == [u \in (DOMAIN files) \cup {t} |-> IF u = t THEN content ELSE files[u]]

(***************************************************************************)
(* saveAllUserData, run from call to return without another task between   *)
(* its steps.  fault names the step that fails.                            *)
(***************************************************************************)
SaveFaults == {"none", "mkdir", "copyFile", "stringify", "writeFile", "writeFileTorn", "readFile", "rename"}

Failure(step) == [success |-> FALSE, step |-> step]

Success == [success |-> TRUE, step |-> "none"]

\* lines 440-449: the copy to .bak, whose failure is only logged
copyToBak(dir, ok) == IF dir.file.kind # "none" /\ ok THEN [dir EXCEPT !.bak = dir.file] ELSE dir

saveAllUserData(st, a, dir, fault, t) ==
    LET made == [dir EXCEPT !.exists = TRUE]
        backedUp == copyToBak(made, fault # "copyFile")
        data == userData(st, a, t)
        complete == [backedUp EXCEPT !.temps = With(backedUp.temps, t, Json(data))]
        torn == [backedUp EXCEPT !.temps = With(backedUp.temps, t, Partial(data))]
        renamed == [backedUp EXCEPT !.file = Json(data), !.temps = Without(backedUp.temps, t)]
    IN  CASE fault = "mkdir" -> [dir |-> dir, result |-> Failure("mkdir")]
          [] fault = "stringify" -> [dir |-> backedUp, result |-> Failure("stringify")]
          [] fault = "writeFile" -> [dir |-> backedUp, result |-> Failure("writeFile")]
          [] fault = "writeFileTorn" -> [dir |-> torn, result |-> Failure("writeFile")]
          [] fault = "readFile" -> [dir |-> complete, result |-> Failure("readFile")]
          [] fault = "rename" -> [dir |-> complete, result |-> Failure("rename")]
          [] OTHER -> [dir |-> renamed, result |-> Success]

(***************************************************************************)
(* loadAllUserData.                                                        *)
(***************************************************************************)
LoadFaults == {"none", "mkdir", "readFile", "corruptedWrite", "bakWrite", "throwAtProfile", "throwAtEnd"}

\* lines 707-725 for the first k entries of data.profiles
RECURSIVE loadProfiles(_, _)
loadProfiles(entries, k) ==
    IF k = 0 THEN NoProfiles
    ELSE LET st == loadProfiles(entries, k - 1)
             key == entries[k].key
             normalizedKey == normalizeJid(key)
             ref == Len(st.h) + 1
             stored == SetKey([st EXCEPT !.h = Append(st.h, entries[k].value)], normalizedKey, ref)
         IN  IF normalizedKey # key THEN SetKey(stored, key, ref) ELSE stored

\* lines 730-797: games and marriages keep objects only
loadAux(a) ==
    [maps |-> [c \in AuxMaps |-> [k \in AuxKeys |->
                  IF c \in {"games", "marriages"} /\ ~IsObject(a.maps[c][k]) THEN Absent
                  ELSE a.maps[c][k]]],
     lottery |-> a.lottery]

\* Object.keys of a Map: a Map has no own enumerable properties
ObjectKeys(map) == {}

\* lines 805-881: what the catch block leaves in memory
afterCatch(backupData, current) ==
    IF Cardinality(ObjectKeys(backupData.st.m)) > 0 THEN backupData ELSE current

\* a load that keeps no copy of what it could not parse
writeCorruptedNever(dir, ok, t) == dir

\* lines 660-666: the copy of the unparsable content, whose failure is only logged
writeCorrupted(dir, ok, t) ==
    IF ok THEN [dir EXCEPT !.corrupted = With(dir.corrupted, t, dir.file)] ELSE dir

\* a load that clears the collections before it looks for the file
loadAllUserDataClearing(st, a, dir, fault, t) ==
    [mem |-> [st |-> NoProfiles, a |-> NoAux, threw |-> FALSE, count |-> 0],
     dir |-> [dir EXCEPT !.exists = TRUE],
     result |-> Failure("access")]

loadAllUserData(st, a, dir, fault, t) ==
    LET backupData == [st |-> st, a |-> a]
        made == [dir EXCEPT !.exists = TRUE]
        kept == [st |-> st, a |-> a, threw |-> FALSE, count |-> 0]
        quarantined == writeCorrupted(made, fault # "corruptedWrite", t)
        backedUp == IF fault = "bakWrite" THEN made ELSE [made EXCEPT !.bak = Json(rawData(st, a))]
        entries == dir.file.data.profiles
        n == Len(entries)
        partly == [st |-> Collect(loadProfiles(entries, 1)), a |-> NoAux]
        fully == [st |-> Collect(loadProfiles(entries, n)), a |-> loadAux(dir.file.data.aux)]
        caught(current) == afterCatch(backupData, current) @@ [threw |-> TRUE, count |-> 0]
    IN  CASE fault = "mkdir" -> [mem |-> kept, dir |-> dir, result |-> Failure("mkdir")]
          [] dir.file.kind = "none" -> [mem |-> kept, dir |-> made, result |-> Failure("access")]
          [] fault = "readFile" \/ dir.file.kind = "blank" ->
                [mem |-> kept, dir |-> made, result |-> Failure("readFile")]
          [] dir.file.kind # "json" -> [mem |-> kept, dir |-> quarantined, result |-> Failure("parse")]
          [] fault = "throwAtProfile" /\ n > 0 ->
                [mem |-> caught(partly), dir |-> backedUp, result |-> Failure("exception")]
          [] fault = "throwAtEnd" ->
                [mem |-> caught(fully), dir |-> backedUp, result |-> Failure("exception")]
          [] OTHER -> [mem |-> fully @@ [threw |-> FALSE, count |-> n], dir |-> backedUp, result |-> Success]

Triggers == {"timer", "signal"}

(***************************************************************************)
(* Actions of the user database.                                           *)
(***************************************************************************)
Profiles == [m |-> userProfiles, h |-> heap]

\* the collections by content: each key with the value it holds
StoreContent(st, a) ==
    [profiles |-> [key \in MapKeys(st.m) |-> st.h[MapGet(st.m, key)]], aux |-> a]

NoSave == [called |-> FALSE, result |-> Failure("none"), fault |-> "none", t |-> 0,
           fileBefore |-> Missing, store |-> StoreContent(NoProfiles, NoAux)]

NoLoad == [called |-> FALSE, result |-> Failure("none"), fault |-> "none", t |-> 0, threw |-> FALSE,
           count |-> 0, fileBefore |-> Missing, dirBefore |-> InitDataDir,
           store |-> StoreContent(NoProfiles, NoAux)]

NoSavers == [i \in Triggers |->
                [pc |-> "idle", temp |-> 0, fd |-> "closed", data |-> EmptyData, renamed |-> FALSE,
                 fileBefore |-> Missing, result |-> Failure("none")]]

\* no loadAllUserData invocation is in flight
NoLoader == [pc |-> "idle", read |-> Missing, bak |-> EmptyData, result |-> Failure("none"), count |-> 0]

NoGet == [id |-> JidEmpty, by |-> "none", found |-> FALSE, hadExact |-> FALSE,
          hadNormalized |-> FALSE, hadAlias |-> FALSE, at |-> 0]

InitStore ==
    /\ userProfiles = <<>>
    /\ heap = <<>>
    /\ aux = NoAux
    /\ dataDir = InitDataDir
    /\ nStoreOps = 0
    /\ lastSave = NoSave
    /\ lastLoad = NoLoad
    /\ storePhase = "init"
    /\ savers = NoSavers
    /\ lastGet = NoGet
    /\ shutdownPc = "idle"
    /\ loader = NoLoader


(***************************************************************************)
(* decompressCredsData: the value of CREDS_DATA and what it decodes to.    *)
(***************************************************************************)
PayloadIds == {"p1", "p2"}

\* JSON values: a credentials object id, {creds: id}, or {"creds.json": text of id}
Plain(id) == [shape |-> "plain", id |-> id, inner |-> "none"]

CredsWrap(id) == [shape |-> "creds", id |-> id, inner |-> "none"]

FileWrap(id, layout) == [shape |-> "file", id |-> id, inner |-> layout]

Layouts == {"compact", "pretty"}

\* a JSON text: a value written in one layout
TextOf(value, layout) == [valid |-> TRUE, value |-> value, layout |-> layout]

\* a text JSON.parse rejects
NotJsonText == [valid |-> FALSE, value |-> Plain("none"), layout |-> "none"]

\* JSON.stringify(value)
stringify(value) == TextOf(value, "compact")

PayloadTexts == {TextOf(Plain(id), layout) : id \in PayloadIds, layout \in Layouts}

WrapTexts ==
    {stringify(CredsWrap(id)) : id \in PayloadIds}
        \cup {stringify(FileWrap(id, layout)) : id \in PayloadIds, layout \in Layouts}

\* the bytes behind the base64 text; source is the text of creds.json they were made from
PlainBlob(text) == [kind |-> "plain", text |-> text, names |-> <<>>, readable |-> TRUE, source |-> text]

ZipBlob(names, text, readable) ==
    [kind |-> "zip", text |-> text, names |-> names, readable |-> readable, source |-> text]

GzipBlob(text, source) == [kind |-> "gzip", text |-> text, names |-> <<>>, readable |-> TRUE, source |-> source]

Junk == [kind |-> "junk", text |-> NotJsonText, names |-> <<>>, readable |-> TRUE, source |-> NotJsonText]

ZipNames == {<<>>, <<"creds.json">>, <<"app-state.json">>, <<"app-state.json", "creds.json">>}

Blobs ==
    {PlainBlob(t) : t \in PayloadTexts}
        \cup {ZipBlob(names, t, readable) : names \in ZipNames, t \in PayloadTexts, readable \in BOOLEAN}
        \cup {GzipBlob(t, t) : t \in PayloadTexts \cup {NotJsonText}}
        \cup {GzipBlob(stringify(CredsWrap(t.value.id)), t) : t \in PayloadTexts}
        \cup {GzipBlob(stringify(FileWrap(t.value.id, t.layout)), t) : t \in PayloadTexts}
        \cup {Junk}

Decoded(text, tried) == [done |-> TRUE, ok |-> TRUE, text |-> text, tried |-> tried]

DecodedNull(tried) == [done |-> TRUE, ok |-> FALSE, text |-> NotJsonText, tried |-> tried]

NotDecoded == [done |-> FALSE, ok |-> FALSE, text |-> NotJsonText, tried |-> <<>>]

\* lines 136-143: the bytes are a JSON text
IsJsonText(b) == b.kind = "plain" /\ b.text.valid

\* lines 146-158: an archive that opens and holds a readable entry creds.json
HasCredsEntry(b) ==
    b.kind = "zip" /\ b.readable /\ \E i \in 1..Len(b.names) : b.names[i] = "creds.json"

\* lines 161-186: a gzip stream of a JSON text, unwrapped
Gunzips(b) == b.kind = "gzip" /\ b.text.valid

unwrap(text) ==
    CASE text.value.shape = "creds" -> stringify(Plain(text.value.id))
      [] text.value.shape = "file" -> TextOf(Plain(text.value.id), text.value.inner)
      [] OTHER -> text

\* lines 130-202, the platform helper
decompressCredsData(b) ==
    IF IsJsonText(b) THEN Decoded(b.text, <<"json">>)
    ELSE IF HasCredsEntry(b) THEN Decoded(b.text, <<"json", "zip">>)
    ELSE IF Gunzips(b) THEN Decoded(unwrap(b.text), <<"json", "zip", "gunzip">>)
    ELSE DecodedNull(<<"json", "zip", "gunzip">>)

\* lines 376-412, the Heroku helper
decompressCredsDataHeroku(b) ==
    IF IsJsonText(b) THEN Decoded(b.text, <<"json">>)
    ELSE IF HasCredsEntry(b) THEN Decoded(b.text, <<"json", "zip">>)
    ELSE DecodedNull(<<"json", "zip">>)

Helpers == {"platform", "heroku"}

\* the file creds.json: absent, or holding a text
NoCredsFile == [exists |-> FALSE, text |-> NotJsonText]

CredsFileOf(text) == [exists |-> TRUE, text |-> text]

\* a file of no bytes
EmptyText == [valid |-> FALSE, value |-> Plain("none"), layout |-> "empty"]

CredsFiles == {NoCredsFile} \cup {CredsFileOf(t) : t \in PayloadTexts \cup {NotJsonText, EmptyText}}

\* the null that compressCredsData returns
NullBlob == [kind |-> "null", text |-> NotJsonText, names |-> <<>>, readable |-> TRUE, source |-> NotJsonText]

\* an archive whose entry keeps the directory of the file in its name
compressCredsDataWithPath(file) ==
    IF ~file.exists THEN NullBlob
    ELSE ZipBlob(<<"auth_info_baileys/creds.json">>, file.text, TRUE)

\* lines 208-231: an archive with the one entry creds.json, or null
compressCredsData(file) ==
    IF ~file.exists THEN NullBlob
    ELSE ZipBlob(<<"creds.json">>, file.text, TRUE)

NotPacked == [called |-> FALSE, from |-> NoCredsFile, out |-> NullBlob]

InitCodec ==
    /\ blob \in Blobs
    /\ decoded = [helper |-> "none"] @@ NotDecoded
    /\ credsFile = NoCredsFile
    /\ packed = NotPacked

\* the other specifications decode nothing
NoCodec ==
    /\ blob = Junk
    /\ decoded = [helper |-> "none"] @@ NotDecoded
    /\ credsFile = NoCredsFile
    /\ packed = NotPacked

InitNormalize ==
    /\ jid \in Jids
    /\ normalized = <<>>

\* the other specifications take the identifiers of their calls from UserIds
NoNormalize ==
    /\ jid = JidEmpty
    /\ normalized = <<>>

(***************************************************************************)
(* The schedulers: startAutoSave, stopAutoSave, setupScheduledBackups.     *)
(***************************************************************************)
MaxSchedOps == 5

TimerIds == 1..(MaxSchedOps + 1)

Tasks == 1..MaxSchedOps

NoCycles == [t \in TimerIds |-> 0]

NoBackupCycles == [k \in Tasks |-> 0]

\* the module's scheduler state
Sched == [interval |-> autoSaveInterval, timers |-> timers, n |-> nTimers, cycles |-> cycles]

\* startAutoSave without the clearInterval of lines 892-894
startAutoSaveStacking(s) ==
    [s EXCEPT !.interval = s.n + 1, !.timers = s.timers \cup {s.n + 1}, !.n = s.n + 1]

startAutoSave(s) ==
    LET cleared == IF s.interval # 0 THEN s.timers \ {s.interval} ELSE s.timers
    IN  [s EXCEPT !.interval = s.n + 1, !.timers = cleared \cup {s.n + 1}, !.n = s.n + 1]

\* a stop that also drops the saves in flight
stopAutoSaveAborting(s) ==
    IF s.interval # 0
    THEN [s EXCEPT !.timers = s.timers \ {s.interval}, !.interval = 0,
                   !.cycles = [t \in TimerIds |-> 0]]
    ELSE s

stopAutoSave(s) ==
    IF s.interval # 0
    THEN [s EXCEPT !.timers = s.timers \ {s.interval}, !.interval = 0]
    ELSE s

\* line 924: the module starts auto-save when it is imported
InitSched ==
    /\ autoSaveInterval = 1
    /\ timers = {1}
    /\ nTimers = 1
    /\ cycles = NoCycles
    /\ cronTasks = 0
    /\ backupCycles = NoBackupCycles
    /\ lastSched = [op |-> "import", before |-> [interval |-> 0, timers |-> {}, n |-> 0,
                                                 cycles |-> NoCycles]]
    /\ nSchedOps = 0

(***************************************************************************)
(* Actions of the backup manager.                                          *)
(***************************************************************************)
Callers == {"scheduled", "connect"}

\* no createBackup call is in flight
NoCalls == [k \in Callers |-> [pc |-> "idle", l |-> 0, creds |-> Null, ts |-> 0, remove |-> <<>>, ret |-> FALSE]]

NoBackup == [creds |-> Null, ts |-> 0, faults |-> [l \in BACKUP_DIRS |-> "ok"], ret |-> FALSE]

InitBackup ==
    /\ disk = [l \in BACKUP_DIRS |-> NoDir]
    /\ now = Epoch
    /\ nOps = 0
    /\ nFaults = 0
    /\ lastBackup = NoBackup
    /\ written = [l \in BACKUP_DIRS |-> {}]
    /\ faulted = {}
    /\ restored = NotRun
    /\ phase = "init"
    /\ calls = NoCalls

Init == InitBackup /\ InitStore /\ NoCodec /\ NoNormalize /\ InitSched

AllOk == [l \in BACKUP_DIRS |-> "ok"]

\* at most one directory is faulty during one call
FaultPlans == {AllOk} \cup {[AllOk EXCEPT ![l] = k] : l \in BACKUP_DIRS, k \in Faults \ {"ok"}}

AllUnlinked == [l \in BACKUP_DIRS |-> "all"]

UnlinkPlans == {AllUnlinked} \cup {[AllUnlinked EXCEPT ![l] = u] : l \in BACKUP_DIRS, u \in Unlinks}

SnapWritten(fault) == fault \in {"ok", "latestFail", "latestTorn"}

\* one call createBackup(c), the clock having advanced by tick since the last reading
CreateBackupCall(c, faults, unl, tick) ==
    LET ts == now + tick
        r == createBackup(disk, c, ts, faults, unl)
    IN  /\ now' = ts
        /\ nOps' = nOps + 1
        /\ nFaults' = IF faults = AllOk /\ unl = AllUnlinked THEN nFaults ELSE nFaults + 1
        /\ disk' = r.disk
        /\ lastBackup' = [creds |-> c, ts |-> ts, faults |-> faults, ret |-> r.ret]
        /\ written' = [l \in BACKUP_DIRS |->
                          IF r.ret /\ SnapWritten(faults[l]) THEN written[l] \cup {ts} ELSE written[l]]
        /\ faulted' = faulted \cup {l \in BACKUP_DIRS : faults[l] # "ok" \/ unl[l] # "all"}
        /\ restored' = NotRun
        /\ phase' = "backup"
        /\ UNCHANGED <<storeVars, codecVars, normVars, timerVars, calls>>

\* createBackup() without credentials returns before it touches a file
CreateBackupNull == CreateBackupCall(Null, AllOk, AllUnlinked, 0)

RestoreBackupCall ==
    /\ restored = NotRun
    /\ restored' = restoreBackup(disk)
    /\ phase' = IF phase = "backup" THEN "backup+restore" ELSE "restore"
    /\ UNCHANGED <<disk, now, nOps, nFaults, lastBackup, written, faulted>>
    /\ UNCHANGED <<storeVars, codecVars, normVars, timerVars, calls>>

\* What the environment can do to one backup file between two calls.
Damages == {"delete", "garbage", "swapCreds", "stripMeta", "legacy"}

OtherCreds(c) == CHOOSE x \in Creds : x # c

Damaged(f, kind) ==
    CASE kind = "delete"    -> NoFile
      [] kind = "garbage"   -> Garbage
      [] kind = "swapCreds" -> [f EXCEPT !.creds = OtherCreds(f.creds)]
      [] kind = "stripMeta" -> [f EXCEPT !.sum = NoSum]
      [] OTHER              -> Legacy(f.creds)

Interfered ==
    /\ nOps' = nOps + 1
    /\ restored' = NotRun
    /\ phase' = "env"
    /\ UNCHANGED <<now, nFaults, lastBackup, written, faulted>>
    /\ UNCHANGED <<storeVars, codecVars, normVars, timerVars, calls>>

DamageLatest(l, kind) ==
    /\ disk[l].exists
    /\ disk[l].latest.kind = "json"
    /\ disk' = [disk EXCEPT ![l].latest = Damaged(@, kind)]
    /\ Interfered

DamageSnap(l, t, kind) ==
    /\ disk[l].exists
    /\ t \in DOMAIN disk[l].snaps
    /\ disk[l].snaps[t].kind = "json"
    /\ disk' = [disk EXCEPT ![l].snaps =
                    IF kind = "delete" THEN [u \in (DOMAIN @) \ {t} |-> @[u]]
                    ELSE [@ EXCEPT ![t] = Damaged(@, kind)]]
    /\ Interfered

\* an ephemeral filesystem loses a whole directory
WipeDir(l) ==
    /\ disk[l].exists
    /\ disk' = [disk EXCEPT ![l] = NoDir]
    /\ Interfered

BackupStep ==
    /\ nOps < MaxOps
    /\ \/ \E c \in Creds, faults \in FaultPlans, tick \in {0, 1} :
              CreateBackupCall(c, faults, AllUnlinked, tick)
       \/ CreateBackupNull

EnvStep ==
    /\ nOps < MaxOps
    /\ \E l \in BACKUP_DIRS :
           \/ \E kind \in Damages : DamageLatest(l, kind)
           \/ \E t \in DOMAIN disk[l].snaps, kind \in Damages : DamageSnap(l, t, kind)
           \/ WipeDir(l)

Next ==
    \/ BackupStep
    \/ RestoreBackupCall
    \/ EnvStep

Spec == Init /\ [][Next]_vars

(***************************************************************************)
(* Retention: many createBackup calls in a row.                            *)
(***************************************************************************)
RetentionStep ==
    /\ nOps < MaxCallsR
    /\ \E tick \in {0, 1} :
           \/ CreateBackupCall("c1", AllOk, AllUnlinked, tick)
           \/ /\ nFaults < MaxFaultsR
              /\ \E faults \in FaultPlans \ {AllOk} : CreateBackupCall("c1", faults, AllUnlinked, tick)
           \/ /\ nFaults < MaxFaultsR
              /\ \E unl \in UnlinkPlans \ {AllUnlinked} : CreateBackupCall("c1", AllOk, unl, tick)

SpecRetention == Init /\ [][RetentionStep]_vars

\* createBackup calls in which any of the directories rejects anything
MaxFaultyCalls == 1

FaultyStep ==
    /\ nOps < MaxFaultyCalls
    /\ \/ \E faults \in [BACKUP_DIRS -> Faults] : CreateBackupCall("c1", faults, AllUnlinked, 1)
       \/ CreateBackupNull

SpecFaults == Init /\ [][FaultyStep]_vars

(***************************************************************************)
(* createBackup step by step: every await is a point where another call    *)
(* runs.  Two callers: the scheduled task and the backup made when the     *)
(* connection opens.                                                       *)
(***************************************************************************)
\* the directories after ten backups, the state a bot that has run for some hours is in
CrowdedDir ==
    [exists |-> TRUE,
     latest |-> BackupFile("c1", [timestamp |-> Epoch + MAX_BACKUPS_PER_DIR - 1,
                                  checksum |-> calculateChecksum("c1")]),
     snaps |-> [t \in Epoch..(Epoch + MAX_BACKUPS_PER_DIR - 1) |->
                   BackupFile("c1", [timestamp |-> t, checksum |-> calculateChecksum("c1")])]]

InitCrowded ==
    /\ InitStore /\ NoCodec /\ NoNormalize /\ InitSched
    /\ disk = [l \in BACKUP_DIRS |-> CrowdedDir]
    /\ now = Epoch + MAX_BACKUPS_PER_DIR
    /\ nOps = 0
    /\ nFaults = 0
    /\ lastBackup = NoBackup
    /\ written = [l \in BACKUP_DIRS |-> Epoch..(Epoch + MAX_BACKUPS_PER_DIR - 1)]
    /\ faulted = {}
    /\ restored = NotRun
    /\ phase = "init"
    /\ calls = NoCalls

CallSame ==
    /\ UNCHANGED <<nOps, nFaults, lastBackup, faulted, restored, phase, now>>
    /\ UNCHANGED <<storeVars, codecVars, normVars, timerVars>>

\* the file createBackup call k writes
FileOf(k) == BackupFile(calls[k].creds, [timestamp |-> calls[k].ts,
                                         checksum |-> calculateChecksum(calls[k].creds)])

\* lines 27-36: the call, up to the first mkdir
BackupStart(k, c) ==
    /\ calls[k].pc = "idle"
    /\ calls' = [calls EXCEPT ![k].pc = "mkdir", ![k].l = 1, ![k].creds = c]
    /\ UNCHANGED <<disk, written>>
    /\ CallSame

\* lines 35-48: a mkdir returns; after the last one the clock is read
BackupMkdir(k) ==
    /\ calls[k].pc = "mkdir"
    /\ disk' = [disk EXCEPT ![calls[k].l].exists = TRUE]
    /\ calls' = IF calls[k].l < NumDirs THEN [calls EXCEPT ![k].l = @ + 1]
                ELSE [calls EXCEPT ![k].pc = "snap", ![k].l = 1, ![k].ts = now]
    /\ UNCHANGED written
    /\ CallSame

\* lines 53-58: the timestamped file is written
BackupSnap(k) ==
    /\ calls[k].pc = "snap"
    /\ disk' = [disk EXCEPT ![calls[k].l] = PutSnap(@, calls[k].ts, FileOf(k))]
    /\ written' = [written EXCEPT ![calls[k].l] = @ \cup {calls[k].ts}]
    /\ calls' = [calls EXCEPT ![k].pc = "latest"]
    /\ CallSame

\* lines 60-65: latest_creds.json is written
BackupLatest(k) ==
    /\ calls[k].pc = "latest"
    /\ disk' = [disk EXCEPT ![calls[k].l].latest = FileOf(k)]
    /\ calls' = IF calls[k].l < NumDirs THEN [calls EXCEPT ![k].pc = "snap", ![k].l = @ + 1]
                ELSE [calls EXCEPT ![k].pc = "readdir", ![k].l = 1]
    /\ UNCHANGED written
    /\ CallSame

\* cleanupOldBackups goes on to the next directory, or createBackup returns true
NextDir(cs, k) ==
    IF cs[k].l < NumDirs THEN [cs EXCEPT ![k].pc = "readdir", ![k].l = @ + 1, ![k].remove = <<>>]
    ELSE [cs EXCEPT ![k].pc = "done", ![k].remove = <<>>, ![k].ret = TRUE]

\* lines 113-116: after an unlink that succeeded, the next file of filesToRemove
NextFile(cs, k) ==
    IF Len(cs[k].remove) > 1 THEN [cs EXCEPT ![k].remove = Tail(@)] ELSE NextDir(cs, k)

\* lines 101-111: readdir returns; the surplus names are chosen
BackupReaddir(k) ==
    /\ calls[k].pc = "readdir"
    /\ LET backupFiles == DOMAIN disk[calls[k].l].snaps
           n == Cardinality(backupFiles)
       IN  calls' = IF n > MAX_BACKUPS_PER_DIR
                    THEN [calls EXCEPT ![k].pc = "unlink",
                                       ![k].remove = FirstSorted(backupFiles, n - MAX_BACKUPS_PER_DIR)]
                    ELSE NextDir(calls, k)
    /\ UNCHANGED <<disk, written>>
    /\ CallSame

\* lines 113-120: an unlink returns; ENOENT goes to the catch of the directory
BackupUnlink(k) ==
    /\ calls[k].pc = "unlink"
    /\ LET l == calls[k].l
           file == Head(calls[k].remove)
       IN  IF file \in DOMAIN disk[l].snaps
           THEN /\ disk' = [disk EXCEPT ![l].snaps = [u \in (DOMAIN @) \ {file} |-> @[u]]]
                /\ calls' = NextFile(calls, k)
           ELSE /\ UNCHANGED disk
                /\ calls' = NextDir(calls, k)
    /\ UNCHANGED written
    /\ CallSame

\* the clock shows the next millisecond
BackupTick ==
    /\ now < Epoch + MAX_BACKUPS_PER_DIR + MaxTicks
    /\ now' = now + 1
    /\ UNCHANGED <<backupVars, storeVars, codecVars, normVars, timerVars>>

InterleavedStep ==
    \/ \E k \in Callers, c \in Creds : BackupStart(k, c)
    \/ \E k \in Callers : BackupMkdir(k)
    \/ \E k \in Callers : BackupSnap(k)
    \/ \E k \in Callers : BackupLatest(k)
    \/ \E k \in Callers : BackupReaddir(k)
    \/ \E k \in Callers : BackupUnlink(k)
    \/ BackupTick

SpecInterleaved == InitCrowded /\ [][InterleavedStep]_vars

(***************************************************************************)
(* Calls on the user database, one after the other.                        *)
(***************************************************************************)
MaxStoreOps == 3

\* a call of the profile API that leaves the profiles st behind
ProfilesBecome(st) ==
    /\ userProfiles' = Collect(st).m
    /\ heap' = Collect(st).h
    /\ nStoreOps' = nStoreOps + 1
    /\ storePhase' = "mutated"
    /\ UNCHANGED <<aux, dataDir, lastSave, lastLoad, savers, now>>
    /\ UNCHANGED <<backupVars, codecVars, normVars, timerVars, shutdownPc, loader>>

InitializeUserProfileCall(userId, initialData) ==
    /\ ProfilesBecome(initializeUserProfile(Profiles, userId, initialData).st)
    /\ UNCHANGED lastGet

GetUserProfileCall(userId) ==
    /\ ProfilesBecome(getUserProfile(Profiles, userId).st)
    /\ lastGet' = [id |-> userId, by |-> getUserProfile(Profiles, userId).by,
                   found |-> getUserProfile(Profiles, userId).ref # 0,
                   hadExact |-> MapGet(userProfiles, userId) # 0,
                   hadNormalized |-> MapGet(userProfiles, normalizeJid(userId)) # 0,
                   hadAlias |-> FirstMatching(userProfiles, normalizeJid(userId)) # 0,
                   at |-> nStoreOps + 1]

UpdateUserProfileCall(userId, data) ==
    /\ ProfilesBecome(updateUserProfile(Profiles, userId, data).st)
    /\ UNCHANGED lastGet

\* other code sets a key of the exported Map to a record of its own
SetRawCall(key) ==
    /\ ProfilesBecome(SetKey([Profiles EXCEPT !.h = Append(Profiles.h,
                                  Assign(defaultProfile(NoData), NoData))],
                             key, Len(Profiles.h) + 1))
    /\ UNCHANGED lastGet

\* a command handler sets an entry of one of the exported Maps
SetAuxCall(c, key, value) ==
    /\ aux' = [aux EXCEPT !.maps[c][key] = value]
    /\ nStoreOps' = nStoreOps + 1
    /\ storePhase' = "mutated"
    /\ UNCHANGED <<userProfiles, heap, dataDir, lastSave, lastLoad, savers, now>>
    /\ UNCHANGED <<backupVars, codecVars, normVars, timerVars, lastGet, shutdownPc, loader>>

\* lotteryParticipants.add
LotteryAddCall(key) ==
    /\ aux' = [aux EXCEPT !.lottery = @ \cup {key}]
    /\ nStoreOps' = nStoreOps + 1
    /\ storePhase' = "mutated"
    /\ UNCHANGED <<userProfiles, heap, dataDir, lastSave, lastLoad, savers, now>>
    /\ UNCHANGED <<backupVars, codecVars, normVars, timerVars, lastGet, shutdownPc, loader>>

SaveAllCall(fault) ==
    LET r == saveAllUserData(Profiles, aux, dataDir, fault, now)
    IN  /\ dataDir' = r.dir
        /\ lastSave' = [called |-> TRUE, result |-> r.result, fault |-> fault, t |-> now,
                        fileBefore |-> dataDir.file, store |-> StoreContent(Profiles, aux)]
        /\ storePhase' = IF r.result.success THEN "saved" ELSE "saveFailed"
        /\ nStoreOps' = nStoreOps + 1
        /\ now' = now + 1
        /\ UNCHANGED <<userProfiles, heap, aux, lastLoad, savers>>
        /\ UNCHANGED <<backupVars, codecVars, normVars, timerVars, lastGet, shutdownPc, loader>>

LoadAllCall(fault) ==
    LET r == loadAllUserData(Profiles, aux, dataDir, fault, now)
    IN  /\ userProfiles' = r.mem.st.m
        /\ heap' = r.mem.st.h
        /\ aux' = r.mem.a
        /\ dataDir' = r.dir
        /\ lastLoad' = [called |-> TRUE, result |-> r.result, fault |-> fault, t |-> now,
                        threw |-> r.mem.threw, count |-> r.mem.count,
                        fileBefore |-> dataDir.file, dirBefore |-> dataDir,
                        store |-> StoreContent(Profiles, aux)]
        /\ storePhase' = IF ~r.result.success THEN "loadFailed"
                         ELSE IF storePhase = "saved" THEN "saved+loaded" ELSE "loaded"
        /\ nStoreOps' = nStoreOps + 1
        /\ now' = now + 1
        /\ UNCHANGED <<lastSave, savers>>
        /\ UNCHANGED <<backupVars, codecVars, normVars, timerVars, lastGet, shutdownPc, loader>>

\* what the environment does to the data file between two calls
FileDamages == {"delete", "invalid", "blank", "scalar"}

DamagedFile(kind) ==
    CASE kind = "delete" -> Missing
      [] kind = "invalid" -> Invalid
      [] kind = "blank" -> Blank
      [] OTHER -> Scalar

DamageDataFile(kind) ==
    /\ dataDir.file # DamagedFile(kind)
    /\ dataDir' = [dataDir EXCEPT !.exists = TRUE, !.file = DamagedFile(kind)]
    /\ nStoreOps' = nStoreOps + 1
    /\ storePhase' = "damaged"
    /\ UNCHANGED <<userProfiles, heap, aux, lastSave, lastLoad, savers, now>>
    /\ UNCHANGED <<backupVars, codecVars, normVars, timerVars, lastGet, shutdownPc, loader>>

StoreStep ==
    /\ nStoreOps < MaxStoreOps
    /\ \/ \E userId \in UserIds, data \in DataInputs : InitializeUserProfileCall(userId, data)
       \/ \E userId \in UserIds : GetUserProfileCall(userId)
       \/ \E userId \in UserIds, data \in DataInputs : UpdateUserProfileCall(userId, data)
       \/ \E c \in AuxMaps, key \in AuxKeys, value \in AuxValues : SetAuxCall(c, key, value)
       \/ \E key \in AuxKeys : LotteryAddCall(key)
       \/ \E fault \in SaveFaults : SaveAllCall(fault)
       \/ \E fault \in LoadFaults : LoadAllCall(fault)
       \/ \E kind \in FileDamages : DamageDataFile(kind)

SpecStore == Init /\ [][StoreStep]_vars

\* loads of whatever stands in the data file, with few ways to fill the store
LoadStep ==
    /\ nStoreOps < MaxStoreOps
    /\ \/ \E userId \in {JidAlias, JidGroup}, data \in {NoData, [f \in {"rank"} |-> "'vip'"]} :
             UpdateUserProfileCall(userId, data)
       \/ \E key \in AuxKeys : LotteryAddCall(key)
       \/ SaveAllCall("none")
       \/ \E fault \in LoadFaults : LoadAllCall(fault)
       \/ \E kind \in FileDamages : DamageDataFile(kind)

SpecLoad == Init /\ [][LoadStep]_vars

\* lookups in a Map that the API and other code have filled
GetStep ==
    /\ nStoreOps < MaxStoreOps
    /\ \/ \E userId \in UserIds : InitializeUserProfileCall(userId, NoData)
       \/ \E userId \in UserIds \cup {JidEmpty} : GetUserProfileCall(userId)
       \/ \E key \in {JidAlias, JidBare} : SetRawCall(key)

SpecGet == Init /\ [][GetStep]_vars

\* values of the wrong type that a command handler puts into a profile
TypeInputs == {[f \in {"age"} |-> "'old'"],
               [f \in {"name"} |-> "5"],
               [f \in {"xp"} |-> "NaN"],
               [f \in {"xp"} |-> "'7'"],
               [f \in {"inventory"} |-> "{}"],
               [f \in {"bio"} |-> "[]"]}

\* saves, with every failure, of profiles that hold such values
WriteStep ==
    /\ nStoreOps < MaxStoreOps
    /\ \/ \E data \in TypeInputs : UpdateUserProfileCall(JidAlias, data)
       \/ \E fault \in SaveFaults : SaveAllCall(fault)

SpecWrite == Init /\ [][WriteStep]_vars

(***************************************************************************)
(* saveAllUserData step by step: every await is a point where another     *)
(* task runs.  Two triggers call it: the auto-save timer and the handler   *)
(* of a shutdown signal, which ends the process when its call returns.     *)
(***************************************************************************)
MaxMutations == 1

InFlight(i) == savers[i].pc \notin {"idle", "done", "killed"}

\* the descriptors open on the file named temp move with it
Moved(s, temp, to) ==
    [j \in Triggers |-> IF s[j].fd = "temp" /\ s[j].temp = temp THEN [s[j] EXCEPT !.fd = to] ELSE s[j]]

\* the descriptors open on the file that a rename replaces keep the old file
Replaced(s) == [j \in Triggers |-> IF s[j].fd = "target" THEN [s[j] EXCEPT !.fd = "orphan"] ELSE s[j]]

\* process.exit(0) in the finally of the signal handler
Exited(s) ==
    [j \in Triggers |-> IF s[j].pc = "done" THEN s[j] ELSE [s[j] EXCEPT !.pc = "killed", !.fd = "closed"]]

\* a hook that exits only after a save that succeeded
ReturnedStaysOnFailure(s, i, result) ==
    LET r == [s EXCEPT ![i].pc = "done", ![i].fd = "closed", ![i].result = result]
    IN  IF i = "signal" /\ result.success THEN Exited(r) ELSE r

\* invocation i returns result
Returned(s, i, result) ==
    LET r == [s EXCEPT ![i].pc = "done", ![i].fd = "closed", ![i].result = result]
    IN  IF i = "signal" THEN Exited(r) ELSE r

SaveSame == UNCHANGED <<userProfiles, heap, aux, nStoreOps, lastSave, lastLoad, storePhase, now>>
                /\ UNCHANGED <<backupVars, codecVars, normVars, timerVars, lastGet, shutdownPc, loader>>

\* line 417-422: the call, up to the first await
SaveStart(i) ==
    /\ savers[i].pc = "idle"
    /\ savers' = [savers EXCEPT ![i].pc = "mkdir", ![i].fileBefore = dataDir.file]
    /\ UNCHANGED dataDir
    /\ SaveSame

\* lines 424-438: mkdir returns; the temporary name is taken from the clock
SaveMkdir(i, ok) ==
    /\ savers[i].pc = "mkdir"
    /\ IF ok
       THEN /\ dataDir' = [dataDir EXCEPT !.exists = TRUE]
            /\ savers' = [savers EXCEPT ![i].pc = "copy", ![i].temp = now]
       ELSE /\ savers' = Returned(savers, i, Failure("mkdir"))
            /\ UNCHANGED dataDir
    /\ SaveSame

\* lines 440-521: the copy to .bak returns; the collections are validated and serialized
SaveSerialize(i, copied, ok) ==
    /\ savers[i].pc = "copy"
    /\ dataDir' = copyToBak(dataDir, copied)
    /\ savers' = IF ok THEN [savers EXCEPT ![i].pc = "open", ![i].data = userData(Profiles, aux, now)]
                 ELSE Returned(savers, i, Failure("stringify"))
    /\ SaveSame

\* the file a descriptor refers to
Target(fd, temp, dir) == IF fd = "temp" THEN dir.temps[temp] ELSE dir.file

Put(fd, temp, dir, content) ==
    CASE fd = "temp" -> [dir EXCEPT !.temps = With(dir.temps, temp, content)]
      [] fd = "target" -> [dir EXCEPT !.file = content]
      [] OTHER -> dir

\* line 525, fs.writeFile: the file is opened, created or truncated
SaveOpen(i, ok) ==
    /\ savers[i].pc = "open"
    /\ IF ok
       THEN /\ dataDir' = [dataDir EXCEPT !.temps = With(dataDir.temps, savers[i].temp, Blank)]
            /\ savers' = [savers EXCEPT ![i].pc = "write", ![i].fd = "temp"]
       ELSE /\ savers' = Returned(savers, i, Failure("writeFile"))
            /\ UNCHANGED dataDir
    /\ SaveSame

\* line 525, fs.writeFile: the first part of the text is written
SaveWrite(i, ok) ==
    /\ savers[i].pc = "write"
    /\ LET fd == savers[i].fd
           old == Target(fd, savers[i].temp, dataDir)
           new == IF old.kind = "blank" THEN Partial(savers[i].data)
                  ELSE IF old.data = savers[i].data THEN old ELSE Invalid
       IN  IF ok
           THEN /\ dataDir' = Put(fd, savers[i].temp, dataDir, new)
                /\ savers' = [savers EXCEPT ![i].pc = "finish"]
           ELSE /\ savers' = Returned(savers, i, Failure("writeFile"))
                /\ UNCHANGED dataDir
    /\ SaveSame

\* line 525, fs.writeFile: the rest of the text is written and the file closed
SaveFinish(i, ok) ==
    /\ savers[i].pc = "finish"
    /\ LET fd == savers[i].fd
           old == Target(fd, savers[i].temp, dataDir)
           new == IF old.data = savers[i].data /\ old.kind \in {"partial", "json"}
                  THEN Json(savers[i].data) ELSE Invalid
       IN  IF ok
           THEN /\ dataDir' = Put(fd, savers[i].temp, dataDir, new)
                /\ savers' = [savers EXCEPT ![i].pc = "validate", ![i].fd = "closed"]
           ELSE /\ savers' = Returned(savers, i, Failure("writeFile"))
                /\ UNCHANGED dataDir
    /\ SaveSame

\* lines 534-544: the temporary file is read back and parsed
SaveValidate(i, ok) ==
    /\ savers[i].pc = "validate"
    /\ savers' = IF ok /\ savers[i].temp \in DOMAIN dataDir.temps
                       /\ dataDir.temps[savers[i].temp].kind = "json"
                 THEN [savers EXCEPT ![i].pc = "rename"]
                 ELSE Returned(savers, i, Failure("readFile"))
    /\ UNCHANGED dataDir
    /\ SaveSame

\* lines 546-555: rename
SaveRename(i, ok) ==
    /\ savers[i].pc = "rename"
    /\ LET temp == savers[i].temp
       IN  IF ok /\ temp \in DOMAIN dataDir.temps
           THEN /\ dataDir' = [dataDir EXCEPT !.file = dataDir.temps[temp],
                                              !.temps = Without(dataDir.temps, temp)]
                /\ savers' = [Moved(Replaced(savers), temp, "target")
                                 EXCEPT ![i].pc = "cleanup", ![i].renamed = TRUE]
           ELSE /\ savers' = Returned(savers, i, Failure("rename"))
                /\ UNCHANGED dataDir
    /\ SaveSame

\* lines 557-572: a file found under the temporary name is unlinked
SaveCleanup(i) ==
    /\ savers[i].pc = "cleanup"
    /\ LET temp == savers[i].temp
       IN  /\ dataDir' = [dataDir EXCEPT !.temps = Without(dataDir.temps, temp)]
           /\ savers' = Returned(Moved(savers, temp, "orphan"), i, Success)
    /\ SaveSame

\* the clock shows the next millisecond
Tick ==
    /\ now < Epoch + MaxTicks
    /\ now' = now + 1
    /\ UNCHANGED <<userProfiles, heap, aux, dataDir, nStoreOps, lastSave, lastLoad, storePhase, savers>>
    /\ UNCHANGED <<backupVars, codecVars, normVars, timerVars, lastGet, shutdownPc, loader>>

\* a command handler changes a profile while invocations are suspended
Mutation ==
    /\ nStoreOps < MaxMutations
    /\ savers["signal"].pc # "done"
    /\ UpdateUserProfileCall(JidA, [f \in {"name"} |-> "'Al'"])

SaveStep ==
    \/ \E i \in Triggers : SaveStart(i)
    \/ \E i \in Triggers, ok \in BOOLEAN : SaveMkdir(i, ok)
    \/ \E i \in Triggers, copied \in BOOLEAN, ok \in BOOLEAN : SaveSerialize(i, copied, ok)
    \/ \E i \in Triggers, ok \in BOOLEAN : SaveOpen(i, ok)
    \/ \E i \in Triggers, ok \in BOOLEAN : SaveWrite(i, ok)
    \/ \E i \in Triggers, ok \in BOOLEAN : SaveFinish(i, ok)
    \/ \E i \in Triggers, ok \in BOOLEAN : SaveValidate(i, ok)
    \/ \E i \in Triggers, ok \in BOOLEAN : SaveRename(i, ok)
    \/ \E i \in Triggers : SaveCleanup(i)
    \/ Tick
    \/ Mutation

SpecSave == Init /\ [][SaveStep]_vars

(***************************************************************************)
(* initializeAuthFromEnv hands CREDS_DATA to decompressCredsData.          *)
(***************************************************************************)
DecodeCall(helper) ==
    /\ ~decoded.done
    /\ decoded' = [helper |-> helper] @@
                     (IF helper = "platform" THEN decompressCredsData(blob)
                      ELSE decompressCredsDataHeroku(blob))
    /\ UNCHANGED <<blob, now, credsFile, packed>>
    /\ UNCHANGED <<backupVars, storeVars, normVars, timerVars>>

CodecStep == \E helper \in Helpers : DecodeCall(helper)

InitDecode == InitBackup /\ InitStore /\ InitCodec /\ NoNormalize /\ InitSched

SpecCodec == InitDecode /\ [][CodecStep]_vars

(***************************************************************************)
(* compressCredsData packs creds.json; its result is handed on as          *)
(* CREDS_DATA and decoded again.                                           *)
(***************************************************************************)
InitPack ==
    /\ InitBackup /\ InitStore /\ NoNormalize /\ InitSched
    /\ blob = Junk
    /\ decoded = [helper |-> "none"] @@ NotDecoded
    /\ credsFile \in CredsFiles
    /\ packed = NotPacked

PackSame ==
    /\ UNCHANGED now
    /\ UNCHANGED <<backupVars, storeVars, normVars, timerVars>>

\* the authentication library, or an operator, replaces or removes creds.json
CredsFileBecomes(file) ==
    /\ credsFile # file
    /\ credsFile' = file
    /\ UNCHANGED <<blob, decoded, packed>>
    /\ PackSame

\* compressCredsData() is called and its result becomes CREDS_DATA
CompressCall ==
    /\ packed' = [called |-> TRUE, from |-> credsFile, out |-> compressCredsData(credsFile)]
    /\ blob' = compressCredsData(credsFile)
    /\ decoded' = [helper |-> "none"] @@ NotDecoded
    /\ UNCHANGED credsFile
    /\ PackSame

\* a CREDS_DATA that was produced is decoded
DecodePacked(helper) ==
    /\ packed.called
    /\ blob.kind # "null"
    /\ DecodeCall(helper)

PackStep ==
    \/ \E file \in CredsFiles : CredsFileBecomes(file)
    \/ CompressCall
    \/ \E helper \in Helpers : DecodePacked(helper)

SpecPack == InitPack /\ [][PackStep]_vars

(***************************************************************************)
(* _normalizeJid applied to an identifier, and to its own result.          *)
(***************************************************************************)
MaxApplications == 2

NormalizeCall ==
    /\ Len(normalized) < MaxApplications
    /\ normalized' = Append(normalized,
                            normalizeJid(IF normalized = <<>> THEN jid
                                         ELSE normalized[Len(normalized)]))
    /\ UNCHANGED <<jid, now>>
    /\ UNCHANGED <<backupVars, storeVars, codecVars, timerVars>>

InitJid == InitBackup /\ InitStore /\ NoCodec /\ InitNormalize /\ InitSched

SpecNormalize == InitJid /\ [][NormalizeCall]_vars

(***************************************************************************)
(* SIGINT or SIGTERM: the hook of the user database (permissions.js        *)
(* 945-978) and the shutdown handler of index.js (267-288) both run.       *)
(***************************************************************************)
\* process.exit(0) has been called, by the hook or by the shutdown handler
ProcessExited == \A j \in Triggers : savers[j].pc \in {"done", "killed"}

\* the signal arrives: both listeners run up to their first await
Signal ==
    /\ savers["signal"].pc = "idle"
    /\ shutdownPc = "idle"
    /\ ~ProcessExited
    /\ savers' = [savers EXCEPT !["signal"].pc = "mkdir", !["signal"].fileBefore = dataDir.file]
    /\ shutdownPc' = "backup"
    /\ UNCHANGED <<userProfiles, heap, aux, dataDir, nStoreOps, lastSave, lastLoad, storePhase, now,
                   lastGet, loader>>
    /\ UNCHANGED <<backupVars, codecVars, normVars, timerVars>>

ShutdownSame ==
    /\ UNCHANGED <<userProfiles, heap, aux, dataDir, nStoreOps, lastSave, lastLoad, storePhase, now,
                   lastGet, loader>>
    /\ UNCHANGED <<backupVars, codecVars, normVars, timerVars>>

\* index.js 275: sessionManager.backupSession() returns or rejects
ShutdownBackup(ok) ==
    /\ shutdownPc = "backup"
    /\ ~ProcessExited
    /\ shutdownPc' = IF ok THEN "disconnect" ELSE "rejected"
    /\ UNCHANGED savers
    /\ ShutdownSame

\* index.js 278-282: connectionManager.disconnect() returns, then process.exit(0)
ShutdownDisconnect(ok) ==
    /\ shutdownPc = "disconnect"
    /\ ~ProcessExited
    /\ shutdownPc' = IF ok THEN "exited" ELSE "rejected"
    /\ savers' = IF ok THEN [j \in Triggers |-> [savers[j] EXCEPT !.pc = "killed", !.fd = "closed"]]
                 ELSE savers
    /\ ShutdownSame

\* the steps of the final saveAllUserData
HookStep ==
    \/ \E ok \in BOOLEAN : SaveMkdir("signal", ok)
    \/ \E copied \in BOOLEAN, ok \in BOOLEAN : SaveSerialize("signal", copied, ok)
    \/ \E ok \in BOOLEAN : SaveOpen("signal", ok)
    \/ \E ok \in BOOLEAN : SaveWrite("signal", ok)
    \/ \E ok \in BOOLEAN : SaveFinish("signal", ok)
    \/ \E ok \in BOOLEAN : SaveValidate("signal", ok)
    \/ \E ok \in BOOLEAN : SaveRename("signal", ok)
    \/ SaveCleanup("signal")

ShutdownStep ==
    \/ Signal
    \/ HookStep
    \/ Tick
    \/ ~ProcessExited /\ Mutation
    \/ \E ok \in BOOLEAN : ShutdownBackup(ok)
    \/ \E ok \in BOOLEAN : ShutdownDisconnect(ok)

\* every file system call of the final save returns
SpecShutdown == Init /\ [][ShutdownStep]_vars /\ WF_vars(HookStep)

(***************************************************************************)
(* Module initialisation (permissions.js 924-943): the auto-save timer is  *)
(* started and loadAllUserData is called; its awaits are points where the  *)
(* timer's callback, a signal handler or a command handler runs.           *)
(***************************************************************************)
\* the data file a previous run of the process left behind
PreviousData ==
    userData(Collect(updateUserProfile(NoProfiles, JidA, [f \in {"name"} |-> "'Bo'"]).st), NoAux, Epoch)

\* the process starts: the collections are empty and the load stands at its first await
InitStartup ==
    /\ InitBackup /\ NoCodec /\ NoNormalize /\ InitSched
    /\ userProfiles = <<>>
    /\ heap = <<>>
    /\ aux = NoAux
    /\ dataDir \in {[InitDataDir EXCEPT !.exists = TRUE, !.file = f] : f \in {Json(PreviousData), Invalid}}
    /\ nStoreOps = 0
    /\ lastSave = NoSave
    /\ lastLoad = NoLoad
    /\ storePhase = "init"
    /\ savers = NoSavers
    /\ lastGet = NoGet
    /\ shutdownPc = "idle"
    /\ loader = [NoLoader EXCEPT !.pc = "mkdir"]

LoadSame ==
    /\ UNCHANGED <<nStoreOps, lastSave, lastLoad, storePhase, savers, now, lastGet, shutdownPc>>
    /\ UNCHANGED <<backupVars, codecVars, normVars, timerVars>>

StoreSame == UNCHANGED <<userProfiles, heap, aux>>

LoaderReturns(result, n) == loader' = [loader EXCEPT !.pc = "done", !.result = result, !.count = n]

\* lines 618-625: mkdir returns
LoadMkdir(ok) ==
    /\ loader.pc = "mkdir"
    /\ ~ProcessExited
    /\ IF ok THEN loader' = [loader EXCEPT !.pc = "read"] ELSE LoaderReturns(Failure("mkdir"), 0)
    /\ dataDir' = IF ok THEN [dataDir EXCEPT !.exists = TRUE] ELSE dataDir
    /\ StoreSame
    /\ LoadSame

\* lines 627-689: the content of the file arrives and is parsed; the text for
\* .bak is made of the collections as they are now and its write begins
LoadRead(ok) ==
    /\ loader.pc = "read"
    /\ ~ProcessExited
    /\ IF ~ok \/ dataDir.file.kind \in {"none", "blank"}
       THEN LoaderReturns(Failure(IF dataDir.file.kind = "none" THEN "access" ELSE "readFile"), 0)
       ELSE IF dataDir.file.kind # "json"
       THEN loader' = [loader EXCEPT !.pc = "quarantine", !.read = dataDir.file]
       ELSE loader' = [loader EXCEPT !.pc = "bak", !.read = dataDir.file, !.bak = rawData(Profiles, aux)]
    /\ UNCHANGED dataDir
    /\ StoreSame
    /\ LoadSame

\* lines 660-669: the write of the .corrupted copy returns
LoadQuarantine(ok) ==
    /\ loader.pc = "quarantine"
    /\ ~ProcessExited
    /\ dataDir' = [writeCorrupted([dataDir EXCEPT !.file = loader.read], ok, now) EXCEPT !.file = dataDir.file]
    /\ LoaderReturns(Failure("parse"), 0)
    /\ StoreSame
    /\ LoadSame

\* what lines 691-881 leave in memory of the content read
Repopulated(fault) ==
    loadAllUserData(Profiles, aux, [dataDir EXCEPT !.file = loader.read], fault, now)

\* a load that waits between clearing the collections and filling them
LoadApplySuspending(bakOk, fault) ==
    /\ loader.pc \in {"bak", "repopulate"}
    /\ ~ProcessExited
    /\ IF loader.pc = "bak"
       THEN /\ dataDir' = IF bakOk THEN [dataDir EXCEPT !.bak = Json(loader.bak)] ELSE dataDir
            /\ userProfiles' = <<>>
            /\ heap' = <<>>
            /\ aux' = NoAux
            /\ loader' = [loader EXCEPT !.pc = "repopulate"]
       ELSE /\ UNCHANGED dataDir
            /\ userProfiles' = Repopulated(fault).mem.st.m
            /\ heap' = Repopulated(fault).mem.st.h
            /\ aux' = Repopulated(fault).mem.a
            /\ LoaderReturns(Repopulated(fault).result, Repopulated(fault).mem.count)
    /\ LoadSame

\* lines 686-804: the write of .bak returns; the collections are cleared and
\* filled from the content parsed before
LoadApply(bakOk, fault) ==
    /\ loader.pc = "bak"
    /\ ~ProcessExited
    /\ dataDir' = IF bakOk THEN [dataDir EXCEPT !.bak = Json(loader.bak)] ELSE dataDir
    /\ userProfiles' = Repopulated(fault).mem.st.m
    /\ heap' = Repopulated(fault).mem.st.h
    /\ aux' = Repopulated(fault).mem.a
    /\ LoaderReturns(Repopulated(fault).result, Repopulated(fault).mem.count)
    /\ LoadSame

ApplyFaults == {"none", "throwAtProfile", "throwAtEnd"}

\* the steps of invocation i of saveAllUserData when no file system call fails
SaveRuns(i) ==
    \/ SaveStart(i)
    \/ SaveMkdir(i, TRUE)
    \/ \E copied \in BOOLEAN : SaveSerialize(i, copied, TRUE)
    \/ SaveOpen(i, TRUE)
    \/ SaveWrite(i, TRUE)
    \/ SaveFinish(i, TRUE)
    \/ SaveValidate(i, TRUE)
    \/ SaveRename(i, TRUE)
    \/ SaveCleanup(i)

StartupStep ==
    \/ \E ok \in BOOLEAN : LoadMkdir(ok)
    \/ \E ok \in BOOLEAN : LoadRead(ok)
    \/ \E ok \in BOOLEAN : LoadQuarantine(ok)
    \/ \E bakOk \in BOOLEAN, fault \in ApplyFaults : LoadApply(bakOk, fault)
    \/ SaveRuns("signal")
    \/ Tick
    \/ Mutation

SpecStartup == InitStartup /\ [][StartupStep]_vars

(***************************************************************************)
(* Steps of the schedulers.                                                *)
(***************************************************************************)
SchedBecomes(s, op) ==
    /\ nSchedOps < MaxSchedOps
    /\ autoSaveInterval' = s.interval
    /\ timers' = s.timers
    /\ nTimers' = s.n
    /\ cycles' = s.cycles
    /\ lastSched' = [op |-> op, before |-> Sched]
    /\ nSchedOps' = nSchedOps + 1
    /\ UNCHANGED now
    /\ UNCHANGED <<backupVars, storeVars, codecVars, normVars>>

StartAutoSaveCall == SchedBecomes(startAutoSave(Sched), "start") /\ UNCHANGED <<cronTasks, backupCycles>>

StopAutoSaveCall == SchedBecomes(stopAutoSave(Sched), "stop") /\ UNCHANGED <<cronTasks, backupCycles>>

\* lines 896-908: a registered timer fires and its callback awaits saveAllUserData
TimerFires(t) ==
    /\ t \in timers
    /\ SchedBecomes([Sched EXCEPT !.cycles[t] = @ + 1], "fire")
    /\ UNCHANGED <<cronTasks, backupCycles>>

\* saveAllUserData returns to a callback
CycleFinishes(t) ==
    /\ cycles[t] > 0
    /\ SchedBecomes([Sched EXCEPT !.cycles[t] = @ - 1], "finish")
    /\ UNCHANGED <<cronTasks, backupCycles>>

\* part_004 205-226: with a function, one more task every quarter of an hour
SetupScheduledBackupsCall(valid) ==
    /\ SchedBecomes(Sched, IF valid THEN "setup" ELSE "setupRefused")
    /\ cronTasks' = IF valid THEN cronTasks + 1 ELSE cronTasks
    /\ UNCHANGED backupCycles

\* part_004 213-223: a task fires and its callback awaits createBackup
CronFires(k) ==
    /\ k \in 1..cronTasks
    /\ SchedBecomes(Sched, "cron")
    /\ backupCycles' = [backupCycles EXCEPT ![k] = @ + 1]
    /\ UNCHANGED cronTasks

BackupFinishes(k) ==
    /\ backupCycles[k] > 0
    /\ SchedBecomes(Sched, "backupDone")
    /\ backupCycles' = [backupCycles EXCEPT ![k] = @ - 1]
    /\ UNCHANGED cronTasks

SchedStep ==
    \/ StartAutoSaveCall
    \/ StopAutoSaveCall
    \/ \E t \in TimerIds : TimerFires(t)
    \/ \E t \in TimerIds : CycleFinishes(t)
    \/ \E valid \in BOOLEAN : SetupScheduledBackupsCall(valid)
    \/ \E k \in Tasks : CronFires(k)
    \/ \E k \in Tasks : BackupFinishes(k)

SpecSched == Init /\ [][SchedStep]_vars

(***************************************************************************)
(* Claims about the backup manager.                                        *)
(***************************************************************************)
\* directory k gives restoreBackup no file to read
NothingIn(k) == ~disk[k].exists \/ (disk[k].latest.kind = "none" /\ DOMAIN disk[k].snaps = {})

\* C3 (as claimed): when the latest-pointer of the first directory that holds
\* files parses but fails the digest test, restoreBackup returns the newest
\* parsable timestamped snapshot of that same directory.
C3_FallsBackToSnapshots ==
    restored # NotRun =>
        \A l \in BACKUP_DIRS :
            ( /\ \A k \in 1..(l - 1) : NothingIn(k)
              /\ disk[l].exists
              /\ ChecksumMismatch(disk[l].latest)
              /\ restoreFromSnaps(disk[l]) # 0 )
            => /\ restored.loc = l
               /\ restored.file = "snap"
               /\ restored.ts = restoreFromSnaps(disk[l])

\* C4: restoreBackup never returns the payload of a latest-pointer whose
\* stored digest differs from the digest of its payload; with such a file on
\* disk it still returns a value (a payload of another file, or not-found).
C4_MismatchedLatestNeverReturned ==
    restored # NotRun =>
        /\ restored.file \in {"latest", "snap", "none"}
        /\ restored.file = "latest" => ~ChecksumMismatch(disk[restored.loc].latest)
        /\ restored.file = "none" <=> restored.loc = 0

C4_Witness ==
    /\ restored # NotRun
    /\ disk[1].exists
    /\ ChecksumMismatch(disk[1].latest)
    /\ restored.loc = 2

Max(S) == CHOOSE t \in S : \A u \in S : u <= t

\* the k newest timestamps of S
Newest(S, k) == {t \in S : Cardinality({u \in S : u > t}) < k}

\* C8: a directory where no mkdir, write or unlink ever failed holds, after
\* snapshots with n distinct timestamps were written to it, exactly the
\* min(n, 10) snapshots with the newest timestamps, and the latest-pointer,
\* which is the newest backup.
C8_RetentionBound ==
    \A l \in BACKUP_DIRS \ faulted :
        LET n == Cardinality(written[l])
        IN  /\ DOMAIN disk[l].snaps = Newest(written[l], Min(n, MAX_BACKUPS_PER_DIR))
            /\ Cardinality(DOMAIN disk[l].snaps) = Min(n, MAX_BACKUPS_PER_DIR)
            /\ n > 0 => /\ disk[l].latest.kind = "json"
                        /\ disk[l].latest.ts = Max(written[l])

C8_Witness ==
    \E l \in BACKUP_DIRS \ faulted :
        /\ Cardinality(written[l]) > MAX_BACKUPS_PER_DIR
        /\ Cardinality(DOMAIN disk[l].snaps) = MAX_BACKUPS_PER_DIR

\* directory dir holds the snapshot and the latest-pointer of createBackup(c) at ts
HoldsBackup(dir, c, ts) ==
    LET file == BackupFile(c, [timestamp |-> ts, checksum |-> calculateChecksum(c)])
    IN  /\ dir.exists
        /\ ts \in DOMAIN dir.snaps
        /\ dir.snaps[ts] = file
        /\ dir.latest = file

\* C9 (as claimed): after createBackup(c) with a failure at one directory,
\* be it the mkdir or one of the two writes, every other directory holds the
\* timestamped snapshot and the latest-pointer of that call.
C9_OtherLocationsWritten ==
    (phase = "backup" /\ lastBackup.creds # Null) =>
        \A u \in BACKUP_DIRS :
            lastBackup.faults[u] # "ok" =>
                \A l \in BACKUP_DIRS \ {u} : HoldsBackup(disk[l], lastBackup.creds, lastBackup.ts)

\* the last createBackup could write no file in directory u and wrote the two others
OneUnwritable(u) ==
    /\ lastBackup.creds # Null
    /\ lastBackup.faults[u] \in {"snapFail", "snapTorn"}
    /\ \A l \in BACKUP_DIRS \ {u} : HoldsBackup(disk[l], lastBackup.creds, lastBackup.ts)

\* C10 (as claimed): after such a createBackup(c), which returns true, the
\* next restoreBackup returns c, wherever the unwritable directory stands and
\* whatever older files it holds.  (That c is taken from a written directory
\* is left aside here: the payload alone already decides the claim.)
C10_RestoresFromWritable ==
    \A u \in BACKUP_DIRS :
        (phase = "backup+restore" /\ OneUnwritable(u)) =>
            /\ lastBackup.ret
            /\ restored.creds = lastBackup.creds

\* directory dir holds a file restoreBackup accepts
Usable(dir) ==
    /\ dir.exists
    /\ \/ Parses(dir.latest) /\ ~ChecksumMismatch(dir.latest)
       \/ ~Parses(dir.latest) /\ \E t \in DOMAIN dir.snaps : Parses(dir.snaps[t])

\* C10 (amended): after such a createBackup(c), which returns true, the next
\* restoreBackup returns c from the latest-pointer of the first written
\* directory, unless the unwritable directory is the first of the configured
\* order and holds a usable file: then the result comes from that directory.
C10_RestoresByPriority ==
    \A u \in BACKUP_DIRS :
        (phase = "backup+restore" /\ OneUnwritable(u)) =>
            /\ lastBackup.ret
            /\ IF u = 1 /\ Usable(disk[1])
               THEN restored.loc = 1
               ELSE /\ restored.creds = lastBackup.creds
                    /\ restored.ts = lastBackup.ts
                    /\ restored.file = "latest"
                    /\ restored.loc = (IF u = 1 THEN 2 ELSE 1)

C10_Witness ==
    /\ phase = "backup+restore"
    /\ OneUnwritable(1)
    /\ disk[1].exists
    /\ DOMAIN disk[1].snaps # {}
    /\ restored.loc = 2
    /\ restored.creds = lastBackup.creds

\* with failures of the writes only, the other directories are written
C9_WriteFaultsOnly ==
    (phase = "backup" /\ lastBackup.creds # Null) =>
        \A u \in BACKUP_DIRS :
            lastBackup.faults[u] \in WriteFaults =>
                \A l \in BACKUP_DIRS \ {u} : HoldsBackup(disk[l], lastBackup.creds, lastBackup.ts)

(***************************************************************************)
(* Claims about the user database.                                         *)
(***************************************************************************)
Store == StoreContent(Profiles, aux)

\* loadAllUserData was the last call and failed
LoadJustFailed == storePhase = "loadFailed"

\* C5: when an exception occurs in loadAllUserData during repopulation, after
\* the collections were cleared, every collection equals on return the
\* snapshot taken before the clear.
C5_RolledBackAfterException ==
    (LoadJustFailed /\ lastLoad.threw) => Store = lastLoad.store

NotJson == {"invalid", "blank", "partial"}

CopyWritten == dataDir.corrupted = With(lastLoad.dirBefore.corrupted, lastLoad.t, lastLoad.fileBefore)

\* C6 as stated: loadAllUserData on a file whose content is not valid JSON,
\* with no step of it failing, writes a copy of the content to
\* <file>.corrupted.<timestamp>, returns a failure and leaves the collections
\* and the file unchanged.
C6_InvalidJsonQuarantined ==
    (lastLoad.called /\ storePhase \in {"loaded", "saved+loaded", "loadFailed"}
        /\ lastLoad.fault = "none" /\ lastLoad.fileBefore.kind \in NotJson)
    => /\ CopyWritten
       /\ ~lastLoad.result.success
       /\ Store = lastLoad.store
       /\ dataDir.file = lastLoad.fileBefore

\* C6, amended: on content that is not valid JSON loadAllUserData returns a
\* failure and leaves the collections and the file unchanged; it writes the
\* copy when the content is not blank and the directory check, the read and
\* the write of the copy succeed, and writes no copy otherwise.
C6_NonBlankInvalidQuarantined ==
    (lastLoad.called /\ storePhase \in {"loaded", "saved+loaded", "loadFailed"}
        /\ lastLoad.fileBefore.kind \in NotJson)
    => /\ ~lastLoad.result.success
       /\ Store = lastLoad.store
       /\ dataDir.file = lastLoad.fileBefore
       /\ IF lastLoad.fileBefore.kind # "blank"
             /\ lastLoad.fault \notin {"mkdir", "readFile", "corruptedWrite"}
          THEN CopyWritten
          ELSE dataDir.corrupted = lastLoad.dirBefore.corrupted

C6_Witness ==
    /\ LoadJustFailed
    /\ lastLoad.fileBefore.kind = "invalid"
    /\ lastLoad.fault = "none"
    /\ lastLoad.t \in DOMAIN dataDir.corrupted
    /\ userProfiles # <<>>

\* a store whose games and marriages hold objects, as loadAllUserData requires
ValidStore(s) == \A c \in {"games", "marriages"}, k \in AuxKeys : s.aux.maps[c][k] \in {Absent, "{}"}

\* s with the default put in for each of the thirteen fields that is missing or malformed
Filled(s) ==
    [profiles |-> [key \in DOMAIN s.profiles |->
                     [f \in AllFields |-> IF f \in Fields THEN validatedProfile(s.profiles[key])[f]
                                          ELSE s.profiles[key][f]]],
     aux |-> s.aux]

\* C7: for a valid store S, a successful saveAllUserData followed by
\* loadAllUserData leaves a store equal to S: the same keys and values in
\* every collection, but for the defaults put in for missing or malformed
\* profile fields.
C7_RoundTrip ==
    (storePhase = "saved+loaded" /\ ValidStore(lastSave.store)) => Store = Filled(lastSave.store)


\* C1: at every point during and after a saveAllUserData invocation, also
\* when it is interrupted, the data file holds its complete prior content or
\* a complete serialized snapshot, never a part of one.
C1_TargetNeverPartial == dataDir.file.kind \in {"none", "json"}

\* C2: when saveAllUserData fails at a step it returns success = false and
\* the data file holds what it held before the call (or the snapshot that
\* another invocation has renamed onto it since).
C2_FailedSaveLeavesTarget ==
    \A i \in Triggers :
        (savers[i].pc = "done" /\ ~savers[i].result.success)
        => \/ dataDir.file = savers[i].fileBefore
           \/ \E j \in Triggers \ {i} :
                 /\ savers[j].renamed
                 /\ dataDir.file = Json(savers[j].data)

(***************************************************************************)
(* Claims about the order and the result of restoreBackup.                 *)
(***************************************************************************)
\* a latest-pointer that parses and passes verification
UsableLatest(f) == Parses(f) /\ ~ChecksumMismatch(f)

NoChoice == [loc |-> 0, file |-> "none", ts |-> 0]

\* the first usable file from directory l on: directories in configured
\* order, in a directory the latest-pointer, then the snapshots newest first
RECURSIVE FirstUsable(_, _)
FirstUsable(d, l) ==
    IF l > NumDirs THEN NoChoice
    ELSE IF d[l].exists /\ UsableLatest(d[l].latest)
    THEN [loc |-> l, file |-> "latest", ts |-> d[l].latest.ts]
    ELSE IF d[l].exists /\ restoreFromSnaps(d[l]) # 0
    THEN [loc |-> l, file |-> "snap", ts |-> restoreFromSnaps(d[l])]
    ELSE FirstUsable(d, l + 1)

Chosen == [loc |-> restored.loc, file |-> restored.file, ts |-> restored.ts]

\* C11: restoreBackup answers with the first usable file in the order:
\* directories in configured order, in each the latest-pointer first, then
\* the timestamped snapshots newest first.
C11_FirstUsableInOrder == restored # NotRun => Chosen = FirstUsable(disk, 1)

NoMismatch == \A l \in BACKUP_DIRS : ~(disk[l].exists /\ ChecksumMismatch(disk[l].latest))

\* C12, for directories without a latest-pointer that fails verification:
\* restoreBackup returns null exactly when no directory holds a usable file,
\* and a stored credential payload in every other case.
C12_NullIffNothingUsable ==
    (restored # NotRun /\ NoMismatch) =>
        /\ (restored = NotFound) <=> (FirstUsable(disk, 1) = NoChoice)
        /\ restored # NotFound => restored.creds \in Creds

\* without a failed verification the order of C11 is the order of the code
C11_OrderWithoutMismatch == (restored # NotRun /\ NoMismatch) => Chosen = FirstUsable(disk, 1)


(***************************************************************************)
(* Claims about decompressCredsData.                                       *)
(***************************************************************************)
\* the blob is one of the encodings of a credential payload
EncodesPayload(b) ==
    /\ b.source.valid
    /\ \/ IsJsonText(b)
       \/ HasCredsEntry(b)
       \/ Gunzips(b)

\* C13: the platform helper decodes every encoding of a payload (plain JSON,
\* archive with the entry creds.json, gzip stream of the payload, of
\* {creds: payload} or of {"creds.json": payload text}) to the same payload
\* string, the text the encodings were made from
C13_SamePayloadString ==
    (decoded.done /\ decoded.helper = "platform" /\ EncodesPayload(blob)) =>
        decoded.ok /\ decoded.text = blob.source

\* the encodings of a compactly written payload do decode to one string
C13_CompactSource ==
    (decoded.done /\ decoded.helper = "platform" /\ EncodesPayload(blob)
        /\ blob.source.layout = "compact") =>
        decoded.ok /\ decoded.text = blob.source

Strategies == <<"json", "zip", "gunzip">>

Succeeds(k, b) ==
    CASE k = 1 -> IsJsonText(b)
      [] k = 2 -> HasCredsEntry(b)
      [] OTHER -> Gunzips(b)

InClaimedOrder(r, b) ==
    LET n == Len(r.tried)
    IN  /\ n \in 1..3
        /\ r.tried = SubSeq(Strategies, 1, n)
        /\ \A k \in 1..(n - 1) : ~Succeeds(k, b)
        /\ r.ok <=> Succeeds(n, b)
        /\ ~r.ok => n = 3

\* C14: decoding tries plain JSON, then the archive entry creds.json, then
\* stream decompression, each at most once and in this order, stops at the
\* first that succeeds, goes on whenever one fails, and returns null only
\* after all three have failed
C14_ThreeStrategiesInOrder == decoded.done => InClaimedOrder(decoded, blob)

\* the platform helper alone follows the claimed order
C14_PlatformOrder ==
    (decoded.done /\ decoded.helper = "platform") => InClaimedOrder(decoded, blob)


(***************************************************************************)
(* Claims about the identifiers of the user database.                      *)
(***************************************************************************)
IsGroup(id) == id[2] = "g.us"

\* C15: normalizing is idempotent, a group identifier is returned unchanged
\* and every other identifier becomes its local part at s.whatsapp.net
C15_NormalizeIdempotent ==
    /\ Len(normalized) >= 2 => normalized[2] = normalized[1]
    /\ (Len(normalized) >= 1 /\ jid # JidEmpty) =>
          normalized[1] = (IF IsGroup(jid) THEN jid ELSE <<jid[1], "s.whatsapp.net">>)

C15_Witness ==
    /\ Len(normalized) = 2
    /\ jid[2] = "c.us"
    /\ normalized[2] = <<jid[1], "s.whatsapp.net">>


\* what get(a) and then get(b) return: two references into the heap
Resolved(a, b) ==
    LET first == getUserProfile(Profiles, a)
        second == getUserProfile(first.st, b)
    IN  <<first.ref, second.ref>>

\* C16: after any sequence of initialize, update, get, saveAll and loadAll,
\* two identifiers with the same normalized form resolve through get to the
\* same record object
C16_AliasesSameRecord ==
    \A a, b \in UserIds :
        normalizeJid(a) = normalizeJid(b) => Resolved(a, b)[1] = Resolved(a, b)[2]

\* as long as nothing was loaded, aliases do resolve to one object
C16_SameRecordBeforeLoad ==
    lastLoad = NoLoad =>
        \A a, b \in UserIds :
            normalizeJid(a) = normalizeJid(b) => Resolved(a, b)[1] = Resolved(a, b)[2]


\* the state right after a call of getUserProfile
JustGot == lastGet.by # "none" /\ lastGet.at = nStoreOps

\* C17: get tries the exact key, then the normalized key, then the scan; a
\* record found by one of the two fallback steps is afterwards stored under
\* the identifier and under its normalized form, so that the next get of the
\* identifier is answered by the exact key
C17_FallbackStoresBothKeys ==
    JustGot =>
        /\ lastGet.by = (IF lastGet.hadExact THEN "exact"
                          ELSE IF lastGet.hadNormalized THEN "normalized"
                          ELSE IF lastGet.hadAlias THEN "scan" ELSE "miss")
        /\ lastGet.by \in {"normalized", "scan"} =>
              /\ MapGet(userProfiles, lastGet.id) # 0
              /\ MapGet(userProfiles, normalizeJid(lastGet.id)) = MapGet(userProfiles, lastGet.id)
              /\ getUserProfile(Profiles, lastGet.id).by = "exact"
              /\ getUserProfile(Profiles, lastGet.id).ref = MapGet(userProfiles, lastGet.id)

C17_Witness == JustGot /\ lastGet.by = "scan" /\ lastGet.id = JidBare

C17_WitnessNormalized == JustGot /\ lastGet.by = "normalized"


(***************************************************************************)
(* Claims about the schedulers.                                            *)
(***************************************************************************)
\* C18: after any sequence of startAutoSave and stopAutoSave at most one
\* auto-save timer is active, because a start while a timer is active
\* clears that timer before it registers the new one
C18_AtMostOneTimer ==
    /\ Cardinality(timers) <= 1
    /\ timers = (IF autoSaveInterval = 0 THEN {} ELSE {autoSaveInterval})
    /\ (lastSched.op = "start" /\ lastSched.before.interval # 0) =>
          lastSched.before.interval \notin timers

C18_Witness ==
    /\ lastSched.op = "start"
    /\ lastSched.before.interval # 0
    /\ lastSched.before.interval \in lastSched.before.timers
    /\ timers = {autoSaveInterval}
    /\ nTimers >= 3

\* C19: stopAutoSave is idempotent, no cycle starts after it until
\* startAutoSave is called again, and the saves in flight at the stop are
\* left to run to their end
C19_StopIdempotentKeepsInFlight ==
    /\ stopAutoSave(stopAutoSave(Sched)) = stopAutoSave(Sched)
    /\ lastSched.op = "stop" =>
          /\ autoSaveInterval = 0
          /\ timers = {}
          /\ cycles = lastSched.before.cycles
          /\ lastSched.before.interval = 0 => Sched = lastSched.before
    /\ lastSched.op = "fire" => lastSched.before.interval # 0
    /\ autoSaveInterval = 0 => \A t \in TimerIds : ~ENABLED TimerFires(t)

\* a save that was in flight at the stop has returned after it
C19_Witness ==
    /\ lastSched.op = "finish"
    /\ autoSaveInterval = 0
    /\ \E t \in TimerIds : lastSched.before.cycles[t] = 1 /\ cycles[t] = 0

\* C20: a cycle of a timer or of a backup task does not start while the
\* saveAllUserData or createBackup of an earlier cycle of it is running
C20_CyclesNeverOverlap ==
    /\ \A t \in TimerIds : cycles[t] <= 1
    /\ \A k \in Tasks : backupCycles[k] <= 1


(***************************************************************************)
(* Claims about the signal handlers.                                       *)
(***************************************************************************)
Signalled == savers["signal"].pc # "idle"

\* C21: after SIGINT or SIGTERM the process exits in the end, whether the
\* final saveAllUserData succeeds or fails
C21_ExitsAfterSignal == Signalled ~> ProcessExited

\* the hook has exited after a final save that failed
C21_Witness ==
    /\ savers["signal"].pc = "done"
    /\ ~savers["signal"].result.success
    /\ shutdownPc # "exited"
    /\ ProcessExited

\* C22: the process does not exit while the final saveAllUserData stands
\* between the writing of its temporary file and the rename
C22_NoExitDuringFinalSave ==
    ~(/\ savers["signal"].pc = "killed"
      /\ savers["signal"].temp \in DOMAIN dataDir.temps)


(***************************************************************************)
(* Claims about the return value of createBackup.                          *)
(***************************************************************************)
\* C23: createBackup without a payload returns false and creates, overwrites
\* and deletes nothing in any directory
C23_NullPayloadTouchesNothing ==
    [][(phase' = "backup" /\ nOps' = nOps + 1 /\ lastBackup'.creds = Null) =>
          (lastBackup'.ret = FALSE /\ disk' = disk)]_vars

\* a call without a payload over directories that hold backups
C23_Witness ==
    /\ phase = "backup"
    /\ lastBackup.creds = Null
    /\ lastBackup.ret = FALSE
    /\ \E l \in BACKUP_DIRS : disk[l].exists /\ Parses(disk[l].latest)

\* C24: createBackup with a payload returns true once the write has been
\* attempted in every directory, also when it failed in every one of them
C24_TrueAfterAttempts ==
    (phase = "backup" /\ lastBackup.creds # Null
        /\ MkdirFailsAt(lastBackup.faults) > NumDirs) => lastBackup.ret = TRUE

C24_Witness ==
    /\ phase = "backup"
    /\ lastBackup.creds # Null
    /\ \A l \in BACKUP_DIRS : lastBackup.faults[l] = "snapFail"
    /\ \A l \in BACKUP_DIRS : disk[l].snaps = NoSnaps /\ disk[l].latest = NoFile
    /\ lastBackup.ret = TRUE


(***************************************************************************)
(* Claims about loadAllUserData and saveAllUserData, continued.            *)
(***************************************************************************)
\* C25: loadAllUserData on a data file that does not exist returns a failure
\* result, raises nothing and leaves every collection in memory as it was
C25_MissingFileLeavesStore ==
    (storePhase \in {"loadFailed", "loaded", "saved+loaded"} /\ lastLoad.fileBefore.kind = "none") =>
        /\ ~lastLoad.result.success
        /\ lastLoad.result.step \in {"access", "mkdir"}
        /\ ~lastLoad.threw
        /\ Store = lastLoad.store

C25_Witness ==
    /\ LoadJustFailed
    /\ lastLoad.fileBefore.kind = "none"
    /\ lastLoad.result = Failure("access")
    /\ userProfiles # <<>>
    /\ Store = lastLoad.store


\* the users of a store: its keys up to normalization
Users(store) == {normalizeJid(k) : k \in DOMAIN store.profiles}

\* C26: after saveAllUserData of a store with the profiles of n users (a
\* user may be stored under an original and a normalized identifier) and a
\* loadAllUserData, the load reports count = n and the store holds exactly
\* those n profiles with the same field values
C26_CountIsUsers ==
    (storePhase = "saved+loaded" /\ lastLoad.result.success) =>
        /\ lastLoad.count = Cardinality(Users(lastSave.store))
        /\ Len(heap) = Cardinality(Users(lastSave.store))
        /\ DOMAIN Store.profiles = DOMAIN lastSave.store.profiles
        /\ \A k \in DOMAIN lastSave.store.profiles :
              \A f \in Fields : Store.profiles[k][f] = validatedProfile(lastSave.store.profiles[k])[f]

\* the count that the load reports is the number of keys in the file
C26_CountIsKeys ==
    (storePhase = "saved+loaded" /\ lastLoad.result.success) =>
        lastLoad.count = Cardinality(DOMAIN lastSave.store.profiles)


\* JSON values that are no strings
NonStrings == Numbers \cup Arrays \cup {"null", "undefined", "{}"}

\* the type that the field f of a profile is expected to have
WellTyped(f, v) ==
    CASE f \in {"name", "bio", "language", "customTitle", "registeredAt"} -> v \notin NonStrings
      [] f \in {"age", "xp", "level", "coins", "warnings"} -> v \in Numbers \ {"NaN"}
      [] f \in {"inventory", "achievements"} -> v \in Arrays
      [] OTHER -> v \notin Arrays \cup {"undefined", "{}"}

SavedProfiles == dataDir.file.data.profiles

\* C27: every profile record that saveAllUserData writes has the thirteen
\* fields, each with a value of the expected type, and profileCount +
\* invalidProfileCount is the number of entries of the Map at the save
C27_RecordsWellTyped ==
    storePhase = "saved" =>
        /\ \A i \in 1..Len(SavedProfiles) :
              \A f \in Fields :
                  /\ f \in DOMAIN SavedProfiles[i].value
                  /\ WellTyped(f, SavedProfiles[i].value[f])
        /\ dataDir.file.data.meta.profileCount + dataDir.file.data.meta.invalidProfileCount
              = Cardinality(DOMAIN lastSave.store.profiles)

\* the thirteen fields are all there, and the fields tested with typeof or
\* Array.isArray hold a number, null in the place of NaN, or an array
C27_FieldsPresent ==
    storePhase = "saved" =>
        \A i \in 1..Len(SavedProfiles) :
            /\ \A f \in Fields : f \in DOMAIN SavedProfiles[i].value
            /\ \A f \in {"xp", "level", "coins", "warnings"} :
                  SavedProfiles[i].value[f] \in (Numbers \ {"NaN"}) \cup {"null"}
            /\ \A f \in {"inventory", "achievements"} : SavedProfiles[i].value[f] \in Arrays

\* C30: after saveAllUserData has returned, with success or with a failure
\* result, no temporary file that it created is left in the data directory
C30_NoTempAfterReturn ==
    storePhase \in {"saved", "saveFailed"} => lastSave.t \notin DOMAIN dataDir.temps

\* the temporary file is gone after a save that succeeded
C30_NoTempAfterSuccess ==
    storePhase = "saved" => lastSave.t \notin DOMAIN dataDir.temps

(***************************************************************************)
(* Claims about the snapshots restoreBackup reads.                         *)
(***************************************************************************)
\* the directory l holds no readable latest-pointer and a snapshot that parses
SnapshotsDecide(l) ==
    /\ disk[l].exists
    /\ ~Parses(disk[l].latest)
    /\ \E t \in DOMAIN disk[l].snaps : Parses(disk[l].snaps[t])

\* the snapshot t is the newest snapshot of the directory l that parses
NewestParsable(l, t) ==
    /\ t \in DOMAIN disk[l].snaps
    /\ Parses(disk[l].snaps[t])
    /\ \A u \in DOMAIN disk[l].snaps : Parses(disk[l].snaps[u]) => ~NameLess(t, u)

\* C28: restoreBackup never passes over a directory whose latest-pointer does
\* not parse and that holds a snapshot that parses: it returns the payload of
\* the newest such snapshot, whatever digest the snapshot stores, unless an
\* earlier directory answered; a latest-pointer that is returned has passed
\* the digest test.
C28_SnapshotsUnverified ==
    restored # NotRun =>
        /\ \A l \in BACKUP_DIRS :
               SnapshotsDecide(l) =>
                   /\ restored.loc \in 1..l
                   /\ restored.loc = l =>
                          /\ restored.file = "snap"
                          /\ NewestParsable(l, restored.ts)
                          /\ restored.creds = disk[l].snaps[restored.ts].creds
        /\ restored.file = "latest" => ~ChecksumMismatch(disk[restored.loc].latest)

\* a snapshot whose stored digest does not match its payload has been returned
C28_Witness ==
    /\ restored.file = "snap"
    /\ ChecksumMismatch(disk[restored.loc].snaps[restored.ts])
    /\ restored.creds = disk[restored.loc].snaps[restored.ts].creds

(***************************************************************************)
(* Claims about the metadata of the backup files.                          *)
(***************************************************************************)
\* createBackup has returned true and nothing touched the directories since
JustBackedUp == phase \in {"backup", "backup+restore"} /\ lastBackup.ret

\* the files the last createBackup call wrote
WrittenFiles ==
    {disk[l].snaps[lastBackup.ts] : l \in {k \in BACKUP_DIRS : SnapWritten(lastBackup.faults[k])}}
        \cup {disk[l].latest : l \in {k \in BACKUP_DIRS : lastBackup.faults[k] = "ok"}}

\* C29: the files written by one createBackup call all hold the payload of the
\* call with the same timestamp and the same digest, and the digest is the
\* digest of the payload stored in the file; a restoreBackup that follows
\* does not reject a latest-pointer the call wrote: the answer comes from
\* that directory's latest-pointer or from an earlier directory.
C29_WrittenFilesVerify ==
    JustBackedUp =>
        /\ \A f \in WrittenFiles :
               /\ f.kind = "json"
               /\ f.creds = lastBackup.creds
               /\ f.ts = lastBackup.ts
               /\ f.sum # NoSum
               /\ f.sum = <<"sha256", f.creds>>
               /\ ~ChecksumMismatch(f)
        /\ \A f, g \in WrittenFiles : f.sum = g.sum /\ f.ts = g.ts
        /\ phase = "backup+restore" =>
               \A l \in BACKUP_DIRS :
                   lastBackup.faults[l] = "ok" =>
                       /\ restored.loc \in 1..l
                       /\ restored.loc = l =>
                              /\ restored.file = "latest"
                              /\ restored.creds = lastBackup.creds
                              /\ restored.ts = lastBackup.ts

\* a call that wrote pointers and snapshots in several directories while one
\* directory failed, and the restore that followed answered from a pointer
C29_Witness ==
    /\ JustBackedUp
    /\ phase = "backup+restore"
    /\ \E l \in BACKUP_DIRS : lastBackup.faults[l] # "ok"
    /\ Cardinality({l \in BACKUP_DIRS : lastBackup.faults[l] = "ok"}) >= 2
    /\ restored.file = "latest"
    /\ restored.creds = lastBackup.creds
    /\ restored.ts = lastBackup.ts

(***************************************************************************)
(* Claims about invocations of saveAllUserData that run together.          *)
(***************************************************************************)
\* invocation i has taken its temporary name and has not yet returned
HoldsTemp(i) == savers[i].pc \in {"copy", "open", "write", "finish", "validate", "rename", "cleanup"}

\* C31: two saveAllUserData invocations in flight never use the same
\* temporary file name, also when both start in the same millisecond.
C31_DistinctTempNames ==
    \A i, j \in Triggers :
        (i # j /\ HoldsTemp(i) /\ HoldsTemp(j)) => savers[i].temp # savers[j].temp

(***************************************************************************)
(* Claims about loadAllUserData running beside saveAllUserData.            *)
(***************************************************************************)
\* C32: a step of loadAllUserData that ends at an await leaves the
\* collections as they were, so they change only in the step in which the
\* load returns, cleared and filled at once; and what an invocation of
\* saveAllUserData serializes is the content of the collections in one state.
C32_NoSuspensionInside ==
    [][/\ (loader' # loader /\ loader'.pc # "done") =>
              (userProfiles' = userProfiles /\ heap' = heap /\ aux' = aux)
       /\ \A i \in Triggers :
              (savers[i].pc = "copy" /\ savers'[i].pc = "open") =>
                  savers'[i].data = userData(Profiles, aux, now)]_vars

\* a save has serialized a store a handler had written to while the load
\* stood between reading the file and clearing the collections
C32_Witness ==
    /\ loader.pc = "bak"
    /\ savers["signal"].pc = "open"
    /\ nStoreOps > 0
    /\ Len(savers["signal"].data.profiles) > 0

\* C35: a save that found a data file with profiles when it was called does
\* not rename a snapshot without profiles onto it.
C35_NoEmptySnapshotOverData ==
    \A i \in Triggers :
        (savers[i].renamed /\ savers[i].fileBefore.kind = "json"
            /\ Len(savers[i].fileBefore.data.profiles) > 0)
        => Len(savers[i].data.profiles) > 0

\* the contents the data file has held since the process started
FileContentsSoFar ==
    {Json(PreviousData), Invalid} \cup {Json(savers[i].data) : i \in {j \in Triggers : savers[j].renamed}}

\* C36: the .bak file, when it exists, holds a content the data file has held.
C36_BakWasDataFile == dataDir.bak.kind # "none" => dataDir.bak \in FileContentsSoFar

\* the .bak file that saveAllUserData writes holds a content the data file has held
C36_SaveBakWasDataFile ==
    (dataDir.bak.kind # "none" /\ loader.pc # "done") => dataDir.bak \in FileContentsSoFar

(***************************************************************************)
(* Claims about the backup schedule.                                       *)
(***************************************************************************)
\* C33: however often setupScheduledBackups is called, at most one periodic
\* backup task is scheduled.
C33_OneBackupSchedule == cronTasks <= 1

\* a call of setupScheduledBackups without a function schedules nothing
C33_InvalidProviderRefused ==
    [][(nSchedOps' = nSchedOps + 1 /\ lastSched'.op = "setupRefused") => cronTasks' = cronTasks]_vars

(***************************************************************************)
(* Claims about the latest-pointer as the current backup.                  *)
(***************************************************************************)
\* the newest timestamp of the snapshots createBackup has written to directory l
NewestWritten(l) == CHOOSE t \in written[l] : \A u \in written[l] : u <= t

\* C34: in every directory to which a snapshot was written, the latest-pointer
\* holds the payload and the timestamp of the newest snapshot written there.
C34_LatestIsNewest ==
    \A l \in BACKUP_DIRS :
        written[l] # {} =>
            /\ disk[l].latest.kind = "json"
            /\ disk[l].latest.ts = NewestWritten(l)
            /\ disk[l].latest.creds = lastBackup.creds

\* the same for the directories in which no write of the call failed
C34_LatestIsNewestWithoutFault ==
    \A l \in BACKUP_DIRS :
        (written[l] # {} /\ lastBackup.faults[l] = "ok") =>
            /\ disk[l].latest.kind = "json"
            /\ disk[l].latest.ts = NewestWritten(l)
            /\ disk[l].latest.creds = lastBackup.creds

\* no createBackup call is between its first and its last step
NoCallInFlight == \A k \in Callers : calls[k].pc \in {"idle", "done"}

\* the latest-pointer is the newest snapshot whenever no createBackup call is in flight
C34_LatestIsNewestAtRest ==
    NoCallInFlight =>
        \A l \in BACKUP_DIRS :
            written[l] # {} => (disk[l].latest.kind = "json" /\ disk[l].latest.ts = NewestWritten(l))

(***************************************************************************)
(* Claims about createBackup calls that run together.                      *)
(***************************************************************************)
\* C37: after two createBackup calls that ran interleaved have both returned,
\* no directory holds more than MAX_BACKUPS_PER_DIR snapshots.
C37_BoundAfterInterleaving ==
    (\A k \in Callers : calls[k].pc = "done") =>
        \A l \in BACKUP_DIRS : Cardinality(DOMAIN disk[l].snaps) <= MAX_BACKUPS_PER_DIR

\* after a call that ran alone no directory holds more than MAX_BACKUPS_PER_DIR snapshots
C37_BoundAfterSingleCall ==
    (calls["scheduled"].pc = "done" /\ calls["connect"].pc = "idle") =>
        \A l \in BACKUP_DIRS : Cardinality(DOMAIN disk[l].snaps) <= MAX_BACKUPS_PER_DIR

(***************************************************************************)
(* Claims about what getUserProfile leaves in the Map.                     *)
(***************************************************************************)
\* C38: a call of getUserProfile leaves every profile object and every entry
\* of the Map as it was; it can only add entries, under the identifier asked
\* for or its normalized form, for the record it found; a call that finds
\* nothing, or is given the empty identifier, leaves the Map unchanged.
C38_GetOnlyAddsKeys ==
    [][lastGet'.at = nStoreOps' =>
          /\ heap' = heap
          /\ Len(userProfiles') >= Len(userProfiles)
          /\ \A i \in 1..Len(userProfiles) : userProfiles'[i] = userProfiles[i]
          /\ \A i \in (Len(userProfiles) + 1)..Len(userProfiles') :
                 /\ userProfiles'[i].key \in {lastGet'.id, normalizeJid(lastGet'.id)}
                 /\ lastGet'.found
                 /\ userProfiles'[i].ref = MapGet(userProfiles', lastGet'.id)
                 /\ \E j \in 1..Len(userProfiles) : userProfiles[j].ref = userProfiles'[i].ref
          /\ (~lastGet'.found \/ lastGet'.id = JidEmpty) => userProfiles' = userProfiles]_vars

\* a lookup found a record by a fallback step and added a key to a Map that
\* holds two records
C38_Witness ==
    /\ JustGot
    /\ lastGet.by \in {"normalized", "scan"}
    /\ Cardinality({i \in 1..Len(userProfiles) :
                       userProfiles[i].ref = MapGet(userProfiles, lastGet.id)}) >= 2
    /\ Len(heap) >= 2

(***************************************************************************)
(* Claims about compressCredsData.                                         *)
(***************************************************************************)
\* C39: what decompressCredsData returns for the result of compressCredsData
\* is the text the file creds.json held when it was packed; when the file
\* did not exist compressCredsData returned null.
C39_PackedRoundTrip ==
    packed.called =>
        /\ packed.from.exists <=> packed.out # NullBlob
        /\ (decoded.done /\ decoded.helper = "platform") =>
               /\ packed.from.exists
               /\ decoded.ok
               /\ decoded.text = packed.from.text

\* the text of an indented creds.json came back after the file had been replaced
C39_Witness ==
    /\ packed.called
    /\ decoded.done
    /\ decoded.helper = "platform"
    /\ decoded.text = packed.from.text
    /\ decoded.text.valid
    /\ decoded.text.layout = "pretty"
    /\ credsFile # packed.from

====
